---- MODULE Spec2Model ----
(***************************************************************************)
(* Model of the image-charts Rust client (src/src/lib.rs): the builder     *)
(* (ImageCharts = config + query), its parameter setters, and to_url with  *)
(* canonical ordering, percent-encoding, conditional signing and port      *)
(* elision; the output operations (to_buffer, to_file, to_data_uri and     *)
(* their blocking variants) with the error they build from a response; and *)
(* the construction of a Configuration (ImageChartsBuilder).               *)
(*                                                                         *)
(* Strings are sequences of bytes; a byte is written as a one-character    *)
(* string ("a", ":", ...) and the two bytes of a non-ASCII character as    *)
(* the tokens "<C3>" and "<A9>".  Code gives each byte its numeric value.  *)
(* Option<T> is a sequence of length 0 (None) or 1 (Some(x)).              *)
(***************************************************************************)
EXTENDS Integers, Sequences, FiniteSets, TLC

VARIABLES builders, last

vars == <<builders, last>>

(***************************************************************************)
(* Bounds of the model.                                                    *)
(***************************************************************************)
\* largest number of distinct keys a modelled ParameterSet holds
MaxParams == 3
\* largest number of builder instances alive in the branching specification
MaxBuilders == 3

(***************************************************************************)
(* Bytes.                                                                  *)
(***************************************************************************)
\* the printable ASCII bytes 32..126, in order (apostrophe and backquote are
\* written as the tokens "<27>" and "<60>")
Ascii ==
  << " ", "!", "\"", "#", "$", "%", "&", "<27>", "(", ")", "*", "+", ",", "-", ".", "/",
     "0", "1", "2", "3", "4", "5", "6", "7", "8", "9", ":", ";", "<", "=", ">", "?",
     "@", "A", "B", "C", "D", "E", "F", "G", "H", "I", "J", "K", "L", "M", "N", "O",
     "P", "Q", "R", "S", "T", "U", "V", "W", "X", "Y", "Z", "[", "\\", "]", "^", "_",
     "<60>", "a", "b", "c", "d", "e", "f", "g", "h", "i", "j", "k", "l", "m", "n", "o",
     "p", "q", "r", "s", "t", "u", "v", "w", "x", "y", "z", "{", "|", "}", "~" >>

Chars == {Ascii[i] : i \in 1..Len(Ascii)} \cup {"<C3>", "<A9>"}

\* numeric value of every byte ("<C3>", "<A9>" are the UTF-8 bytes of U+00E9)
Code ==
  [c \in Chars |->
     IF c = "<C3>" THEN 195
     ELSE IF c = "<A9>" THEN 169
     ELSE 31 + (CHOOSE i \in 1..Len(Ascii) : Ascii[i] = c)]

UpperHex == << "0", "1", "2", "3", "4", "5", "6", "7", "8", "9", "A", "B", "C", "D", "E", "F" >>
LowerHex == << "0", "1", "2", "3", "4", "5", "6", "7", "8", "9", "a", "b", "c", "d", "e", "f" >>

None == << >>
Some(x) == << x >>

\* concatenation of the strings ss[lo..hi]
RECURSIVE ConcatRange(_, _, _)
ConcatRange(ss, lo, hi) ==
  IF lo > hi THEN << >>
  ELSE IF lo = hi THEN ss[lo]
  ELSE LET mid == (lo + hi) \div 2
       IN  ConcatRange(ss, lo, mid) \o ConcatRange(ss, mid + 1, hi)

\* concatenation of a sequence of strings
Concat(ss) == ConcatRange(ss, 1, Len(ss))

\* [T]::join(sep)
RECURSIVE join(_, _)
join(ss, sep) ==
  IF ss = << >> THEN << >>
  ELSE IF Len(ss) = 1 THEN ss[1]
  ELSE ss[1] \o sep \o join(Tail(ss), sep)

\* format!("{}", n) of an unsigned integer
RECURSIVE Decimal(_)
Decimal(n) ==
  IF n < 10 THEN << UpperHex[n + 1] >>
  ELSE Decimal(n \div 10) \o << UpperHex[(n % 10) + 1] >>

(***************************************************************************)
(* Literals of the source.                                                 *)
(***************************************************************************)
S_https == << "h", "t", "t", "p", "s" >>
S_http == << "h", "t", "t", "p" >>
S_host == << "i", "m", "a", "g", "e", "-", "c", "h", "a", "r", "t", "s", ".", "c", "o", "m" >>
S_chart == << "/", "c", "h", "a", "r", "t" >>
K_cht == << "c", "h", "t" >>
K_chd == << "c", "h", "d" >>
K_icac == << "i", "c", "a", "c" >>
K_ichm == << "i", "c", "h", "m" >>
K_icqrb == << "i", "c", "q", "r", "b" >>
S_ichm_eq == << "i", "c", "h", "m", "=" >>
S_amp_ichm_eq == << "&" >> \o S_ichm_eq

(***************************************************************************)
(* Configuration and builder.                                              *)
(***************************************************************************)
\* impl Default for ImageChartsConfig
ImageChartsConfig_default ==
  [ protocol |-> S_https,
    host |-> S_host,
    port |-> 443,
    pathname |-> S_chart,
    timeout |-> 5000,
    secret |-> None,
    user_agent |-> None ]

\* HashMap::new()
EmptyQuery == [k \in {} |-> << >>]

\* ImageCharts::with_config
with_config(config) == [config |-> config, query |-> EmptyQuery]

\* ImageCharts::new
new == with_config(ImageChartsConfig_default)

\* ImageCharts::with_secret
with_secret(secret) ==
  with_config([ImageChartsConfig_default EXCEPT !.secret = Some(secret)])

\* HashMap::insert: insert or overwrite
insert(query, key, value) ==
  [k \in (DOMAIN query) \cup {key} |-> IF k = key THEN value ELSE query[k]]

\* (mutant) the new instance is built on a fresh default Configuration
clone_with_default_config(self, key, value) ==
  [config |-> ImageChartsConfig_default, query |-> insert(self.query, key, value)]

\* ImageCharts::clone_with: clone the receiver, insert into the clone
clone_with(self, key, value) ==
  [config |-> self.config, query |-> insert(self.query, key, value)]

(***************************************************************************)
(* to_url.                                                                 *)
(***************************************************************************)
\* String::cmp: byte-wise lexicographic "less than"
RECURSIVE StrLess(_, _)
StrLess(a, b) ==
  IF b = << >> THEN FALSE
  ELSE IF a = << >> THEN TRUE
  ELSE IF Code[a[1]] # Code[b[1]] THEN Code[a[1]] < Code[b[1]]
  ELSE StrLess(Tail(a), Tail(b))

\* one step of a stable sort: put pair p into the sorted sequence s
RECURSIVE SortedInsert(_, _)
SortedInsert(s, p) ==
  IF s = << >> THEN << p >>
  ELSE IF StrLess(p[1], s[1][1]) THEN << p >> \o s
  ELSE << s[1] >> \o SortedInsert(Tail(s), p)

\* (mutant) the sort is left out: the pairs stay in iteration order
sort_by_unsorted(pairs) == pairs

\* (mutant) the comparator is reversed: the pairs come out descending
RECURSIVE sort_by_descending(_)
sort_by_descending(pairs) ==
  IF pairs = << >> THEN << >>
  ELSE LET p == pairs[Len(pairs)]
           rest == sort_by_descending(SubSeq(pairs, 1, Len(pairs) - 1))
           k == Cardinality({i \in 1..Len(rest) : StrLess(p[1], rest[i][1])})
       IN  SubSeq(rest, 1, k) \o << p >> \o SubSeq(rest, k + 1, Len(rest))

\* pairs.sort_by(|a, b| a.0.cmp(b.0))
RECURSIVE sort_by(_)
sort_by(pairs) ==
  IF pairs = << >> THEN << >>
  ELSE SortedInsert(sort_by(SubSeq(pairs, 1, Len(pairs) - 1)), pairs[Len(pairs)])

\* urlencoding::encode keeps ASCII alphanumerics and - _ . ~
IsUnreserved(c) ==
  \/ Code[c] \in 48..57
  \/ Code[c] \in 65..90
  \/ Code[c] \in 97..122
  \/ c \in {"-", "_", ".", "~"}

\* (mutant) the percent sign is passed through unescaped
encode_byte_keeps_percent(c) ==
  IF IsUnreserved(c) \/ c = "%" THEN << c >>
  ELSE << "%", UpperHex[(Code[c] \div 16) + 1], UpperHex[(Code[c] % 16) + 1] >>

encode_byte(c) ==
  IF IsUnreserved(c) THEN << c >>
  ELSE << "%", UpperHex[(Code[c] \div 16) + 1], UpperHex[(Code[c] % 16) + 1] >>

\* urlencoding::encode
encode(v) == Concat([i \in 1..Len(v) |-> encode_byte(v[i])])

\* position-weighted sum of the bytes s[lo..hi]
RECURSIVE WeightedSum(_, _, _)
WeightedSum(s, lo, hi) ==
  IF lo > hi THEN 0
  ELSE IF lo = hi THEN ((lo * lo + 1) * (Code[s[lo]] + 1)) % 65521
  ELSE LET mid == (lo + hi) \div 2
       IN  (WeightedSum(s, lo, mid) + WeightedSum(s, mid + 1, hi)) % 65521

\* the digest state after absorbing the bytes of s into state h
Absorb(h, s) == (h * 31 + Len(s) + WeightedSum(s, 1, Len(s))) % 65521

\* hex::encode: two lowercase hex digits per byte
hex_encode(bytes) ==
  Concat([i \in 1..Len(bytes) |->
            << LowerHex[(bytes[i] \div 16) + 1], LowerHex[(bytes[i] % 16) + 1] >>])

\* HmacSha256::new_from_slice(key).expect(..): HMAC takes a key of any size, so
\* the expect never panics
hmac_key_ok(key) == Len(key) >= 0

\* ImageCharts::sign: hex of the 32-byte MAC of data under secret.  HMAC-SHA256
\* is abstracted to a keyed digest that depends on the key and on every byte of
\* data, in order; the output format (32 bytes, lowercase hex) is that of the code.
sign(data, secret) ==
  LET h == Absorb(Absorb(7, secret) + 1, data)
  IN  hex_encode([i \in 1..32 |-> (h + i * ((h % 251) + 1)) % 256])

\* self.query.iter(): the HashMap yields its entries in an arbitrary order
IterOrders(query) ==
  LET n == Cardinality(DOMAIN query)
  IN  { o \in [1..n -> DOMAIN query] : \A i, j \in 1..n : o[i] = o[j] => i = j }

\* the query string before signing, from the entries in iteration order
query_string_of(query, order) ==
  LET pairs == sort_by([i \in 1..Len(order) |-> << order[i], query[order[i]] >>])
  IN  join([i \in 1..Len(pairs) |-> pairs[i][1] \o << "=" >> \o encode(pairs[i][2])],
           << "&" >>)

\* (mutant) the emptiness check of the secret is left out
must_sign_any_secret(self) ==
  /\ K_icac \in DOMAIN self.query
  /\ self.config.secret # None

\* the signing gate of to_url
must_sign(self) ==
  /\ K_icac \in DOMAIN self.query
  /\ self.config.secret # None
  /\ self.config.secret[1] # << >>

\* (mutant) the port alone decides, whatever the protocol
port_str_by_port_only(config) ==
  IF config.port = 443 \/ config.port = 80
  THEN << >>
  ELSE << ":" >> \o Decimal(config.port)

\* the port segment of to_url
port_str(config) ==
  IF \/ (config.protocol = S_https /\ config.port = 443)
     \/ (config.protocol = S_http /\ config.port = 80)
  THEN << >>
  ELSE << ":" >> \o Decimal(config.port)

\* (mutant) the signature is computed before the values are encoded
to_url_signs_raw(self, order) ==
  LET pre == query_string_of(self.query, order)
      pairs == sort_by([i \in 1..Len(order) |-> << order[i], self.query[order[i]] >>])
      raw == join([i \in 1..Len(pairs) |-> pairs[i][1] \o << "=" >> \o pairs[i][2]],
                  << "&" >>)
      query_string ==
        IF must_sign(self)
        THEN pre \o S_amp_ichm_eq \o sign(raw, self.config.secret[1])
        ELSE pre
  IN  self.config.protocol \o << ":", "/", "/" >> \o self.config.host
        \o port_str(self.config) \o self.config.pathname \o << "?" >> \o query_string

\* (mutant) the `?` is written only when there are parameters
to_url_no_question_mark(self, order) ==
  LET pre == query_string_of(self.query, order)
      query_string ==
        IF must_sign(self)
        THEN pre \o S_amp_ichm_eq \o sign(pre, self.config.secret[1])
        ELSE pre
  IN  self.config.protocol \o << ":", "/", "/" >> \o self.config.host
        \o port_str(self.config) \o self.config.pathname
        \o (IF query_string = << >> THEN << >> ELSE << "?" >> \o query_string)

\* (mutant) the signed text starts with the host
to_url_signs_host(self, order) ==
  LET pre == query_string_of(self.query, order)
      query_string ==
        IF must_sign(self)
        THEN pre \o S_amp_ichm_eq \o sign(self.config.host \o pre, self.config.secret[1])
        ELSE pre
  IN  self.config.protocol \o << ":", "/", "/" >> \o self.config.host
        \o port_str(self.config) \o self.config.pathname \o << "?" >> \o query_string

\* ImageCharts::to_url, with the iteration order the HashMap happened to give
to_url(self, order) ==
  LET pre == query_string_of(self.query, order)
      query_string ==
        IF must_sign(self)
        THEN pre \o S_amp_ichm_eq \o sign(pre, self.config.secret[1])
        ELSE pre
  IN  self.config.protocol \o << ":", "/", "/" >> \o self.config.host
        \o port_str(self.config) \o self.config.pathname \o << "?" >> \o query_string

(***************************************************************************)
(* Inputs.                                                                 *)
(***************************************************************************)
S_plop == << "p", "l", "o", "p" >>
S_localhost == << "l", "o", "c", "a", "l", "h", "o", "s", "t" >>
S_v1 == << "/", "v", "1" >>
S_ftp == << "f", "t", "p" >>
V_p == << "p" >>
\* t:1,2,3
V_data == << "t", ":", "1", ",", "2", ",", "3" >>
\* unreserved bytes, reserved bytes, an escape-like text and a two-byte character
V_tricky ==
  << "-", "_", ".", "~", "&", "i", "c", "h", "m", "=", "%", "2", "F", "+", " ",
     "<C3>", "<A9>", "|" >>

\* setter names: the setters cht, chd, icac, ichm, icqrb
Keys == {K_chd, K_cht, K_icac, K_ichm, K_icqrb}
Values == {<< >>, V_data, V_tricky}

Configs ==
  LET d == ImageChartsConfig_default
  IN  { d,
        [d EXCEPT !.port = 8080],
        [d EXCEPT !.secret = Some(<< >>)],
        [d EXCEPT !.secret = Some(S_plop)],
        [d EXCEPT !.port = 80, !.secret = Some(S_plop)],
        [d EXCEPT !.protocol = S_http, !.port = 80, !.secret = Some(<< >>)],
        [d EXCEPT !.protocol = S_http, !.port = 443],
        [d EXCEPT !.protocol = S_ftp, !.host = S_localhost, !.port = 65535,
                  !.pathname = S_v1, !.secret = Some(S_plop)] }

BranchKeys == {K_cht, K_icac}
BranchValues == {V_p, V_data}
BranchConfigs ==
  {ImageChartsConfig_default, [ImageChartsConfig_default EXCEPT !.secret = Some(S_plop)]}

NoUrl == << >>

(***************************************************************************)
(* State: the live builder instances and the last operation performed.     *)
(***************************************************************************)
Init ==
  /\ \E config \in Configs : builders = (1 :> with_config(config))
  /\ last = [op |-> "new", b |-> 1, url |-> NoUrl]

InitBranch ==
  /\ \E config \in BranchConfigs : builders = (1 :> with_config(config))
  /\ last = [op |-> "new", b |-> 1, url |-> NoUrl]

\* (mutant) the clone shares the receiver's map: every builder holding the same
\* ParameterSet sees the insertion
Setter_SharedQuery(b, key, value) ==
  /\ b \in DOMAIN builders
  /\ key \in DOMAIN builders[b].query \/ Cardinality(DOMAIN builders[b].query) < MaxParams
  /\ builders' = [o \in DOMAIN builders |->
                    IF builders[o].query = builders[b].query
                    THEN [builders[o] EXCEPT !.query = insert(@, key, value)]
                    ELSE builders[o]]
  /\ last' = [op |-> "set", b |-> b, url |-> NoUrl]

\* a parameter setter (pub fn cht(self, value) and the like): the receiver is
\* consumed and replaced by the instance clone_with returns
Setter(b, key, value) ==
  /\ b \in DOMAIN builders
  /\ key \in DOMAIN builders[b].query \/ Cardinality(DOMAIN builders[b].query) < MaxParams
  /\ builders' = [builders EXCEPT ![b] = clone_with(builders[b], key, value)]
  /\ last' = [op |-> "set", b |-> b, url |-> NoUrl]

\* #[derive(Clone)] on ImageCharts: a branch, an independent copy of builder a
Clone(a) ==
  /\ a \in DOMAIN builders
  /\ Cardinality(DOMAIN builders) < MaxBuilders
  /\ LET n == Cardinality(DOMAIN builders) + 1
     IN  /\ builders' = builders @@ (n :> builders[a])
         /\ last' = [op |-> "clone", b |-> n, url |-> NoUrl]

\* (mutant) signing stores the signature in the ParameterSet
ToUrl_StoresSignature(b) ==
  /\ b \in DOMAIN builders
  /\ \E order \in IterOrders(builders[b].query) :
       /\ last' = [op |-> "to_url", b |-> b, url |-> to_url(builders[b], order)]
       /\ builders' =
            IF must_sign(builders[b])
            THEN [builders EXCEPT ![b].query =
                    insert(@, K_ichm,
                           sign(query_string_of(builders[b].query, order),
                                builders[b].config.secret[1]))]
            ELSE builders

\* a call of to_url(&self): it returns a String, or panics where sign would
ToUrl(b) ==
  /\ b \in DOMAIN builders
  /\ \E order \in IterOrders(builders[b].query) :
       last' = IF must_sign(builders[b]) /\ ~hmac_key_ok(builders[b].config.secret[1])
               THEN [op |-> "panic", b |-> b, url |-> NoUrl]
               ELSE [op |-> "to_url", b |-> b, url |-> to_url(builders[b], order)]
  /\ UNCHANGED builders

Next ==
  \/ \E b \in DOMAIN builders, key \in Keys, value \in Values : Setter(b, key, value)
  \/ \E b \in DOMAIN builders : ToUrl(b)

NextBranch ==
  \/ \E b \in DOMAIN builders, key \in BranchKeys, value \in BranchValues :
       Setter(b, key, value)
  \/ \E a \in DOMAIN builders : Clone(a)
  \/ \E b \in DOMAIN builders : ToUrl(b)

Spec == Init /\ [][Next]_vars

SpecBranch == InitBranch /\ [][NextBranch]_vars

(***************************************************************************)
(* Observation of a returned URL: what a reader of the URL sees.           *)
(***************************************************************************)
StartsWith(s, p) == Len(s) >= Len(p) /\ SubSeq(s, 1, Len(p)) = p

Contains(s, sub) ==
  \E i \in 1..(Len(s) + 1) : i + Len(sub) - 1 <= Len(s) /\ SubSeq(s, i, i + Len(sub) - 1) = sub

\* positions of byte c in s
Positions(s, c) == {i \in 1..Len(s) : s[i] = c}

\* the k-th smallest element of a set of numbers
Nth(S, k) == CHOOSE x \in S : Cardinality({y \in S : y < x}) = k - 1

\* s split at every byte c
Split(s, c) ==
  LET P == Positions(s, c)
      n == Cardinality(P)
      from(k) == IF k = 1 THEN 1 ELSE Nth(P, k - 1) + 1
      to(k) == IF k = n + 1 THEN Len(s) ELSE Nth(P, k) - 1
  IN  [k \in 1..(n + 1) |-> SubSeq(s, from(k), to(k))]

\* the text after the first "?" of a URL
QueryOf(url) ==
  LET P == Positions(url, "?")
  IN  IF P = {} THEN << >> ELSE SubSeq(url, Nth(P, 1) + 1, Len(url))

\* the parameters of a query string, in order of appearance
Segments(qs) == IF qs = << >> THEN << >> ELSE Split(qs, "&")

\* name and raw value of one parameter "name=value"
NameOf(seg) ==
  LET P == Positions(seg, "=")
  IN  IF P = {} THEN seg ELSE SubSeq(seg, 1, Nth(P, 1) - 1)
RawValueOf(seg) ==
  LET P == Positions(seg, "=")
  IN  IF P = {} THEN << >> ELSE SubSeq(seg, Nth(P, 1) + 1, Len(seg))

IsUpperHexDigit(c) == \E i \in 1..16 : UpperHex[i] = c
IsLowerHexDigit(c) == \E i \in 1..16 : LowerHex[i] = c
IsHexDigit(c) == IsUpperHexDigit(c) \/ IsLowerHexDigit(c)
HexValue(c) ==
  IF IsUpperHexDigit(c) THEN (CHOOSE i \in 1..16 : UpperHex[i] = c) - 1
  ELSE (CHOOSE i \in 1..16 : LowerHex[i] = c) - 1

\* the byte with a numeric value ("<?>" when the model has no such byte)
ByteOf(n) == IF \E c \in Chars : Code[c] = n THEN CHOOSE c \in Chars : Code[c] = n ELSE "<?>"

\* a standard percent-decoder: %XX becomes the byte XX, every other byte is kept
PercentDecode(s) ==
  LET esc(i) == i >= 1 /\ i + 2 <= Len(s) /\ s[i] = "%"
                  /\ IsHexDigit(s[i + 1]) /\ IsHexDigit(s[i + 2])
      piece(i) == IF esc(i) THEN << ByteOf(16 * HexValue(s[i + 1]) + HexValue(s[i + 2])) >>
                  ELSE IF esc(i - 1) \/ esc(i - 2) THEN << >>
                  ELSE << s[i] >>
  IN  Concat([i \in 1..Len(s) |-> piece(i)])

\* byte-wise lexicographic order of two names
ByteLexLess(a, b) ==
  \E i \in 1..(Len(b)) :
    /\ i <= Len(a) + 1
    /\ \A j \in 1..(i - 1) : a[j] = b[j]
    /\ (i = Len(a) + 1 \/ Code[a[i]] < Code[b[i]])

Is64Hex(s) == Len(s) = 64 /\ \A i \in 1..Len(s) : IsLowerHexDigit(s[i])

\* the builder on which the last to_url ran, and what it returned
Called == last.op = "to_url"
Self == builders[last.b]
Url == last.url
Params == DOMAIN Self.query
NParams == Cardinality(Params)
HasIcac == K_icac \in Params
HasSecret == Self.config.secret # None /\ Self.config.secret[1] # << >>
UrlSegments == Segments(QueryOf(Url))
IchmCount == Cardinality({i \in 1..Len(UrlSegments) : NameOf(UrlSegments[i]) = K_ichm})
\* the last parameter of the URL is an appended signature
SignatureAppended ==
  /\ Len(UrlSegments) = NParams + 1
  /\ NameOf(UrlSegments[Len(UrlSegments)]) = K_ichm

(***************************************************************************)
(* C1.  Original statement: the URL returned by to_url contains `ichm=` if *)
(* and only if the ParameterSet contains icac and the secret is present    *)
(* and non-empty.                                                          *)
(***************************************************************************)
\* C1 (original): `ichm=` is in the URL exactly when icac and a non-empty secret are set
C1_Original ==
  Called => (Contains(Url, S_ichm_eq) <=> (HasIcac /\ HasSecret))

\* C1 (amended): to_url appends a signature parameter `&ichm=<sig>` if and only
\* if the ParameterSet contains icac and the secret is present and non-empty
\* (an empty secret counts as absent); the URL contains `ichm=` if and only if
\* that holds or the caller has set the parameter ichm itself.
C1_SignatureGate ==
  Called =>
    /\ SignatureAppended <=> (HasIcac /\ HasSecret)
    /\ ~SignatureAppended => Len(UrlSegments) = NParams
    /\ Contains(Url, S_ichm_eq) <=> ((HasIcac /\ HasSecret) \/ K_ichm \in Params)

\* all four combinations of (icac, usable secret) occur; this one is the signed one
C1_Witness ==
  /\ Called /\ HasIcac /\ HasSecret /\ K_ichm \notin Params
  /\ Contains(Url, S_ichm_eq)

PreSignature == SubSeq(QueryOf(Url), 1, Len(QueryOf(Url)) - 70)

\* s holds only bytes that percent-encoding emits
IsEncoded(s) ==
  \A i \in 1..Len(s) :
    \/ IsUnreserved(s[i])
    \/ /\ s[i] = "%"
       /\ i + 2 <= Len(s)
       /\ IsUpperHexDigit(s[i + 1])
       /\ IsUpperHexDigit(s[i + 2])

\* qs is the sorted, encoded serialization of query
IsCanonical(qs, query) ==
  LET segs == Segments(qs)
  IN  /\ Len(segs) = Cardinality(DOMAIN query)
      /\ \A i \in 1..Len(segs) :
           /\ NameOf(segs[i]) \in DOMAIN query
           /\ IsEncoded(RawValueOf(segs[i]))
           /\ PercentDecode(RawValueOf(segs[i])) = query[NameOf(segs[i])]
      /\ \A i \in 1..(Len(segs) - 1) : ByteLexLess(NameOf(segs[i]), NameOf(segs[i + 1]))

\* C3: a signed query string is the canonical pre-signature string, `&ichm=`,
\* and the lowercase-hex MAC of exactly that pre-signature string under the secret
C3_SignedText ==
  (Called /\ HasIcac /\ HasSecret) =>
    LET qs == QueryOf(Url)
    IN  /\ Len(qs) >= 70
        /\ IsCanonical(PreSignature, Self.query)
        /\ SubSeq(qs, Len(qs) - 69, Len(qs) - 64) = S_amp_ichm_eq
        /\ SubSeq(qs, Len(qs) - 63, Len(qs)) = sign(PreSignature, Self.config.secret[1])
        /\ Is64Hex(SubSeq(qs, Len(qs) - 63, Len(qs)))

\* a signed URL whose signed text has a value that needed encoding
C3_Witness ==
  /\ Called /\ HasIcac /\ HasSecret
  /\ K_chd \in Params /\ Self.query[K_chd] = V_tricky
  /\ Self.query[K_icac] = V_data

(***************************************************************************)
(* C4.  Whenever the ParameterSet contains icac and the secret is          *)
(* non-empty, the URL returned by to_url contains exactly one `ichm=`      *)
(* parameter, its value is 64 hexadecimal characters, and it is the last   *)
(* parameter of the query string, after any sequence of setter calls.      *)
(***************************************************************************)
\* C4: with icac and a non-empty secret the URL has exactly one ichm parameter,
\* the last one, with a value of 64 hexadecimal characters
C4_ExactlyOneSignature ==
  (Called /\ HasIcac /\ HasSecret) =>
    /\ IchmCount = 1
    /\ Len(UrlSegments) >= 1
    /\ NameOf(UrlSegments[Len(UrlSegments)]) = K_ichm
    /\ Is64Hex(RawValueOf(UrlSegments[Len(UrlSegments)]))

(***************************************************************************)
(* C5.  Original statement: in every reachable builder state the           *)
(* ParameterSet does not contain the key ichm.                             *)
(***************************************************************************)
\* C5 (original): no reachable ParameterSet contains the key ichm
C5_Original == \A b \in DOMAIN builders : K_ichm \notin DOMAIN builders[b].query

\* C5 (amended): a ParameterSet is constructed without the key ichm and comes
\* to contain it only by a call of the public setter ichm on that builder;
\* to_url never adds it to the ParameterSet, the signature it computes exists
\* only in the returned URL.
C5_IchmOnlyBySetter ==
  /\ \A b \in DOMAIN builders : K_ichm \notin DOMAIN builders[b].query
  /\ [][\A b \in DOMAIN builders' :
          (/\ K_ichm \in DOMAIN builders'[b].query
           /\ b \in DOMAIN builders
           /\ K_ichm \notin DOMAIN builders[b].query)
          => \E value \in Values : Setter(b, K_ichm, value)]_vars

\* to_url has signed and the ParameterSet still has no key ichm
C5_Witness ==
  /\ Called /\ HasIcac /\ HasSecret
  /\ SignatureAppended
  /\ K_ichm \notin Params

(***************************************************************************)
(* C6.  to_url emits the port segment `:<port>` between host and path if   *)
(* and only if the (protocol, port) pair is neither ("https", 443) nor     *)
(* ("http", 80).                                                           *)
(***************************************************************************)
\* what follows protocol://host in the URL
AfterHost ==
  LET n == Len(Self.config.protocol) + 3 + Len(Self.config.host)
  IN  SubSeq(Url, n + 1, Len(Url))

IsDefaultPair(config) ==
  \/ (config.protocol = S_https /\ config.port = 443)
  \/ (config.protocol = S_http /\ config.port = 80)

\* C6: `:<port>` follows the host exactly when (protocol, port) is neither
\* ("https", 443) nor ("http", 80)
C6_PortElision ==
  Called =>
    /\ StartsWith(Url, Self.config.protocol \o << ":", "/", "/" >> \o Self.config.host)
    /\ IsDefaultPair(Self.config) => StartsWith(AfterHost, Self.config.pathname \o << "?" >>)
    /\ ~IsDefaultPair(Self.config) =>
         StartsWith(AfterHost,
                    << ":" >> \o Decimal(Self.config.port) \o Self.config.pathname \o << "?" >>)
    /\ StartsWith(AfterHost, << ":" >>) <=> ~IsDefaultPair(Self.config)

\* https with port 80: not a default pair, the port is rendered
C6_Witness ==
  /\ Called
  /\ Self.config.protocol = S_https /\ Self.config.port = 80
  /\ StartsWith(AfterHost, << ":", "8", "0", "/" >>)

(***************************************************************************)
(* C7.  Determinism: two consecutive calls of to_url, on one builder or on *)
(* two builders that hold equal ParameterSets and equal Configurations,    *)
(* return the byte-identical URL, whatever order the entries are stored    *)
(* in.                                                                     *)
(***************************************************************************)
\* C7: consecutive to_url calls on equal (Configuration, ParameterSet) return
\* the same URL
C7_Deterministic ==
  [][(/\ last.op = "to_url"
      /\ last'.op = "to_url"
      /\ builders'[last'.b] = builders[last.b])
     => last'.url = last.url]_vars

\* to_url has run on a builder with two parameters while another builder
\* holds the same ParameterSet and Configuration
C7_Witness ==
  /\ Called
  /\ NParams = 2
  /\ \E o \in DOMAIN builders : o # last.b /\ builders[o] = Self

(***************************************************************************)
(* C8.  to_url is total and its result is exactly                          *)
(* <protocol>://<host><port-segment><path>?<query-string>, for every       *)
(* Configuration and every ParameterSet; the empty ParameterSet gives an   *)
(* empty query string after `?`, and with the default Configuration the    *)
(* URL starts with https://image-charts.com/chart?                         *)
(***************************************************************************)
S_default_prefix == S_https \o << ":", "/", "/" >> \o S_host \o S_chart \o << "?" >>

\* everything of the expected URL up to and including the `?`
ExpectedPrefix(config) ==
  config.protocol \o << ":", "/", "/" >> \o config.host
    \o (IF IsDefaultPair(config) THEN << >> ELSE << ":" >> \o Decimal(config.port))
    \o config.pathname \o << "?" >>

\* C8: to_url never fails and returns protocol://host[:port]path?query
C8_TotalAndAssembled ==
  /\ last.op # "panic"
  /\ Called =>
       LET prefix == ExpectedPrefix(Self.config)
           rest == SubSeq(Url, Len(prefix) + 1, Len(Url))
       IN  /\ StartsWith(Url, prefix)
           /\ Params = {} => Url = prefix
           /\ Self.config = ImageChartsConfig_default => StartsWith(Url, S_default_prefix)
           /\ IF HasIcac /\ HasSecret
              THEN /\ Len(rest) >= 70
                   /\ IsCanonical(SubSeq(rest, 1, Len(rest) - 70), Self.query)
              ELSE IsCanonical(rest, Self.query)

\* to_url of an empty ParameterSet under a non-default Configuration
C8_Witness ==
  /\ Called
  /\ Params = {}
  /\ Self.config.host = S_localhost
  /\ Url[Len(Url)] = "?"

(***************************************************************************)
(* C9.  Encoding round-trip: every value is percent-encoded (reserved      *)
(* bytes escaped, unreserved bytes including - _ . ~ left intact, names    *)
(* not encoded) such that decoding the parameters of the query string      *)
(* gives back exactly the name-to-value mapping of the ParameterSet;       *)
(* t:1,2,3 is emitted as t%3A1%2C2%2C3.                                    *)
(***************************************************************************)
\* t%3A1%2C2%2C3
E_data == << "t", "%", "3", "A", "1", "%", "2", "C", "2", "%", "2", "C", "3" >>
\* the expected encoding of V_tricky
E_tricky ==
  << "-", "_", ".", "~", "%", "2", "6", "i", "c", "h", "m", "%", "3", "D",
     "%", "2", "5", "2", "F", "%", "2", "B", "%", "2", "0",
     "%", "C", "3", "%", "A", "9", "%", "7", "C" >>

UrlsOf(self) == {to_url(self, order) : order \in IterOrders(self.query)}

\* C10: a setter or a copy changes no other builder, nor its to_url result
C10_BranchIndependence ==
  [][/\ last'.op = "set" =>
          /\ DOMAIN builders' = DOMAIN builders
          /\ \A o \in DOMAIN builders \ {last'.b} : builders'[o] = builders[o]
          /\ (last.op = "to_url" /\ last.b # last'.b) =>
               UrlsOf(builders'[last.b]) = {last.url}
     /\ last'.op = "clone" =>
          /\ \A o \in DOMAIN builders : builders'[o] = builders[o]
          /\ builders'[last'.b] \in {builders[a] : a \in DOMAIN builders}]_vars

\* an original and two branches, all three different after a setter call
C10_Witness ==
  /\ DOMAIN builders = {1, 2, 3}
  /\ last.op = "set"
  /\ builders[1].query # builders[2].query
  /\ builders[2].query # builders[3].query
  /\ builders[1].query # builders[3].query
  /\ builders[1].query # EmptyQuery

(***************************************************************************)
(* C11.  The ParameterSet starts empty and only grows: its key set is the  *)
(* set of names that were set, no setter removes a key, each key maps to   *)
(* the value of the last setter call for that name, and a key appears at   *)
(* most once in the serialized query string.                               *)
(***************************************************************************)
\* how many parameters of the query string of the URL are named key
CountNamed(key) ==
  Cardinality({i \in 1..Len(UrlSegments) : NameOf(UrlSegments[i]) = key})

\* C11: a builder is constructed with an empty ParameterSet; a setter call adds
\* its name to the key set or overwrites the value stored under it and leaves
\* every other entry alone, no step removes a key; and every key of the
\* ParameterSet names exactly one parameter of the serialized query string
C11_GrowOnlyOneValue ==
  /\ \A b \in DOMAIN builders : builders[b].query = EmptyQuery
  /\ [][/\ \A b \in DOMAIN builders :
             DOMAIN builders[b].query \subseteq DOMAIN builders'[b].query
        /\ \A b \in DOMAIN builders, key \in Keys, value \in Values :
             Setter(b, key, value) =>
               /\ DOMAIN builders'[b].query = DOMAIN builders[b].query \cup {key}
               /\ builders'[b].query[key] = value
               /\ \A k \in DOMAIN builders[b].query \ {key} :
                    builders'[b].query[k] = builders[b].query[k]]_vars
  /\ [](Called => \A key \in Params : CountNamed(key) = 1)

(***************************************************************************)
(* The transport layer: errors, the error headers of a response, the       *)
(* User-Agent, the image type and the data URI.                            *)
(***************************************************************************)
K_chan == << "c", "h", "a", "n" >>
S_newline == << "<0A>" >>
S_message == << "m", "e", "s", "s", "a", "g", "e" >>
\* HTTP 
S_HTTP ==
  << "H", "T", "T", "P", " " >>
\* rust-image_charts/
S_ua_prefix ==
  << "r", "u", "s", "t", "-", "i", "m", "a", "g", "e", "_", "c", "h", "a", "r", "t",
     "s", "/" >>
\* env!("CARGO_PKG_VERSION"): the version text fixed when the crate is built
S_version == << "<CARGO_PKG_VERSION>" >>
\* image/gif
S_image_gif ==
  << "i", "m", "a", "g", "e", "/", "g", "i", "f" >>
\* image/png
S_image_png ==
  << "i", "m", "a", "g", "e", "/", "p", "n", "g" >>
\* gif
S_gif ==
  << "g", "i", "f" >>
\* png
S_png ==
  << "p", "n", "g" >>
\* data:
S_data ==
  << "d", "a", "t", "a", ":" >>
\* ;base64,
S_base64 ==
  << ";", "b", "a", "s", "e", "6", "4", "," >>

\* ImageChartsError::new
ImageChartsError_new(message) ==
  [message |-> message, code |-> None, status_code |-> None]

\* ImageChartsError::with_code
with_code(err, code) == [err EXCEPT !.code = Some(code)]

\* ImageChartsError::with_status
with_status(err, status) == [err EXCEPT !.status_code = Some(status)]

\* Result<T, ImageChartsError>
Ok(value) == [tag |-> "Ok", value |-> value]
Err(error) == [tag |-> "Err", error |-> error]

\* HeaderValue::to_str().ok(): the text of a header value, when every byte of
\* it is visible ASCII
to_str(v) ==
  IF \A i \in 1..Len(v) : Code[v[i]] >= 32 /\ Code[v[i]] < 127
  THEN Some(v)
  ELSE None

(***************************************************************************)
(* The x-ic-error-validation header.  A header text is a byte string; the  *)
(* JSON document it spells is a tree of nodes [kind, text, items]: a       *)
(* string or number carries its text, an array its elements, an object its *)
(* members as << name, value >> pairs in the order written.                *)
(***************************************************************************)
JString(s) == [kind |-> "string", text |-> s, items |-> << >>]
JNumber(s) == [kind |-> "number", text |-> s, items |-> << >>]
JArray(items) == [kind |-> "array", text |-> << >>, items |-> items]
JObject(members) == [kind |-> "object", text |-> << >>, items |-> members]
\* a text that is not a JSON document
NotJson == [kind |-> "invalid", text |-> << >>, items |-> << >>]

M_chs == << "c", "h", "s", " ", "i", "s", " ", "r", "e", "q", "u", "i", "r", "e", "d" >>
M_cht == << "b", "a", "d", " ", "c", "h", "t" >>
S_msg == << "m", "s", "g" >>
S_path == << "p", "a", "t", "h" >>

\* header texts a server may send
\* [{"message":"chs is required"}]
T_one ==
  << "[", "{", "\"", "m", "e", "s", "s", "a", "g", "e", "\"", ":", "\"", "c", "h", "s",
     " ", "i", "s", " ", "r", "e", "q", "u", "i", "r", "e", "d", "\"", "}", "]" >>
\* [{"message":"chs is required"},{"message":"bad cht"}]
T_two ==
  << "[", "{", "\"", "m", "e", "s", "s", "a", "g", "e", "\"", ":", "\"", "c", "h", "s",
     " ", "i", "s", " ", "r", "e", "q", "u", "i", "r", "e", "d", "\"", "}", ",", "{",
     "\"", "m", "e", "s", "s", "a", "g", "e", "\"", ":", "\"", "b", "a", "d", " ", "c",
     "h", "t", "\"", "}", "]" >>
\* []
T_none ==
  << "[", "]" >>
\* oops
T_garbage ==
  << "o", "o", "p", "s" >>
\* {"message":"bad cht"}
T_object ==
  << "{", "\"", "m", "e", "s", "s", "a", "g", "e", "\"", ":", "\"", "b", "a", "d", " ",
     "c", "h", "t", "\"", "}" >>
\* [{"msg":"bad cht"}]
T_nofield ==
  << "[", "{", "\"", "m", "s", "g", "\"", ":", "\"", "b", "a", "d", " ", "c", "h", "t",
     "\"", "}", "]" >>
\* [{"message":"bad cht","path":"cht"}]
T_extra ==
  << "[", "{", "\"", "m", "e", "s", "s", "a", "g", "e", "\"", ":", "\"", "b", "a", "d",
     " ", "c", "h", "t", "\"", ",", "\"", "p", "a", "t", "h", "\"", ":", "\"", "c",
     "h", "t", "\"", "}", "]" >>
\* [{"message":1}]
T_number ==
  << "[", "{", "\"", "m", "e", "s", "s", "a", "g", "e", "\"", ":", "1", "}", "]" >>
\* [{"message":"bad cht","message":"bad cht"}]
T_twice ==
  << "[", "{", "\"", "m", "e", "s", "s", "a", "g", "e", "\"", ":", "\"", "b", "a", "d",
     " ", "c", "h", "t", "\"", ",", "\"", "m", "e", "s", "s", "a", "g", "e", "\"", ":",
     "\"", "b", "a", "d", " ", "c", "h", "t", "\"", "}", "]" >>
\* [["bad cht"]]
T_tuple ==
  << "[", "[", "\"", "b", "a", "d", " ", "c", "h", "t", "\"", "]", "]" >>
\* [{"message":"é"}]
T_accent ==
  << "[", "{", "\"", "m", "e", "s", "s", "a", "g", "e", "\"", ":", "\"",
     "<C3>", "<A9>", "\"", "}", "]" >>

\* the JSON reader of serde_json::from_str on the header texts above: the
\* document a text spells
json_document(text) ==
  CASE text = T_one ->
         JArray(<< JObject(<< << S_message, JString(M_chs) >> >>) >>)
    [] text = T_two ->
         JArray(<< JObject(<< << S_message, JString(M_chs) >> >>),
                   JObject(<< << S_message, JString(M_cht) >> >>) >>)
    [] text = T_none -> JArray(<< >>)
    [] text = T_object -> JObject(<< << S_message, JString(M_cht) >> >>)
    [] text = T_nofield ->
         JArray(<< JObject(<< << S_msg, JString(M_cht) >> >>) >>)
    [] text = T_extra ->
         JArray(<< JObject(<< << S_message, JString(M_cht) >>,
                              << S_path, JString(K_cht) >> >>) >>)
    [] text = T_number ->
         JArray(<< JObject(<< << S_message, JNumber(<< "1" >>) >> >>) >>)
    [] text = T_twice ->
         JArray(<< JObject(<< << S_message, JString(M_cht) >>,
                              << S_message, JString(M_cht) >> >>) >>)
    [] text = T_tuple -> JArray(<< JArray(<< JString(M_cht) >>) >>)
    [] text = T_accent ->
         JArray(<< JObject(<< << S_message, JString(<< "<C3>", "<A9>" >>) >> >>) >>)
    [] OTHER -> NotJson

\* (mutant) a missing or ill-typed message is read as the empty string
deserialize_ValidationError_default_message(v) ==
  IF v.kind = "object"
  THEN LET at == {i \in 1..Len(v.items) : v.items[i][1] = S_message}
       IN  IF Cardinality(at) = 1 /\ \A i \in at : v.items[i][2].kind = "string"
           THEN Some(v.items[CHOOSE i \in at : TRUE][2].text)
           ELSE Some(<< >>)
  ELSE IF v.kind = "array"
  THEN IF Len(v.items) = 1 /\ v.items[1].kind = "string"
       THEN Some(v.items[1].text)
       ELSE None
  ELSE None

\* #[derive(Deserialize)] struct ValidationError { message: String } on one
\* element: Some(message) or None.  An object must hold the field message
\* exactly once, with a string; other fields are ignored.  A one-element
\* array of a string is the positional form of the struct.
deserialize_ValidationError(v) ==
  IF v.kind = "object"
  THEN LET at == {i \in 1..Len(v.items) : v.items[i][1] = S_message}
       IN  IF Cardinality(at) = 1 /\ \A i \in at : v.items[i][2].kind = "string"
           THEN Some(v.items[CHOOSE i \in at : TRUE][2].text)
           ELSE None
  ELSE IF v.kind = "array"
  THEN IF Len(v.items) = 1 /\ v.items[1].kind = "string"
       THEN Some(v.items[1].text)
       ELSE None
  ELSE None

\* serde_json::from_str::<Vec<ValidationError>>(v).ok()
from_str_ok(text) ==
  LET doc == json_document(text)
  IN  IF /\ doc.kind = "array"
         /\ \A i \in 1..Len(doc.items) : deserialize_ValidationError(doc.items[i]) # None
      THEN Some([i \in 1..Len(doc.items) |-> deserialize_ValidationError(doc.items[i])[1]])
      ELSE None

\* (mutant) the error code is preferred to the validation messages
parse_error_response_code_first(status, error_code, validation_header) ==
  LET errors == IF validation_header = None THEN None ELSE from_str_ok(validation_header[1])
      validation_message == IF errors = None THEN None ELSE Some(join(errors[1], S_newline))
      message ==
        IF error_code # None THEN error_code[1]
        ELSE IF validation_message # None THEN validation_message[1]
        ELSE S_HTTP \o Decimal(status)
      err == with_status(ImageChartsError_new(message), status)
  IN  IF error_code # None THEN with_code(err, error_code[1]) ELSE err

\* (mutant) the code is attached only when it also supplies the message
parse_error_response_code_with_message(status, error_code, validation_header) ==
  LET errors == IF validation_header = None THEN None ELSE from_str_ok(validation_header[1])
      validation_message == IF errors = None THEN None ELSE Some(join(errors[1], S_newline))
      message ==
        IF validation_message # None THEN validation_message[1]
        ELSE IF error_code # None THEN error_code[1]
        ELSE S_HTTP \o Decimal(status)
      err == with_status(ImageChartsError_new(message), status)
  IN  IF error_code # None /\ validation_message = None
      THEN with_code(err, error_code[1])
      ELSE err

\* (mutant) an empty list of validation messages counts as no message
parse_error_response_skips_empty(status, error_code, validation_header) ==
  LET errors == IF validation_header = None THEN None ELSE from_str_ok(validation_header[1])
      validation_message ==
        IF errors = None \/ errors = Some(<< >>)
        THEN None
        ELSE Some(join(errors[1], S_newline))
      message ==
        IF validation_message # None THEN validation_message[1]
        ELSE IF error_code # None THEN error_code[1]
        ELSE S_HTTP \o Decimal(status)
      err == with_status(ImageChartsError_new(message), status)
  IN  IF error_code # None THEN with_code(err, error_code[1]) ELSE err

\* ImageCharts::parse_error_response
parse_error_response(status, error_code, validation_header) ==
  LET errors == IF validation_header = None THEN None ELSE from_str_ok(validation_header[1])
      validation_message == IF errors = None THEN None ELSE Some(join(errors[1], S_newline))
      message ==
        IF validation_message # None THEN validation_message[1]
        ELSE IF error_code # None THEN error_code[1]
        ELSE S_HTTP \o Decimal(status)
      err == with_status(ImageChartsError_new(message), status)
  IN  IF error_code # None THEN with_code(err, error_code[1]) ELSE err

(***************************************************************************)
(* Image type, User-Agent, base64.                                         *)
(***************************************************************************)
\* (mutant) an empty chan does not count
get_mime_type_nonempty_chan(self) ==
  IF K_chan \in DOMAIN self.query /\ self.query[K_chan] # << >>
  THEN S_image_gif
  ELSE S_image_png

\* ImageCharts::get_mime_type
get_mime_type(self) ==
  IF K_chan \in DOMAIN self.query THEN S_image_gif ELSE S_image_png

\* ImageCharts::get_file_format
get_file_format(self) ==
  IF K_chan \in DOMAIN self.query THEN S_gif ELSE S_png

\* (mutant) the account id is appended to a caller-supplied User-Agent too
build_user_agent_always_icac(self) ==
  LET suffix ==
        IF K_icac \in DOMAIN self.query
        THEN << " ", "(" >> \o self.query[K_icac] \o << ")" >>
        ELSE << >>
  IN  IF self.config.user_agent # None
      THEN self.config.user_agent[1] \o suffix
      ELSE S_ua_prefix \o S_version \o suffix

\* ImageCharts::build_user_agent
build_user_agent(self) ==
  LET default_ua ==
        S_ua_prefix \o S_version
          \o (IF K_icac \in DOMAIN self.query
              THEN << " ", "(" >> \o self.query[K_icac] \o << ")" >>
              ELSE << >>)
  IN  IF self.config.user_agent # None THEN self.config.user_agent[1] ELSE default_ua

\* the alphabet of base64::engine::general_purpose::STANDARD
Base64Alphabet ==
  << "A", "B", "C", "D", "E", "F", "G", "H", "I", "J", "K", "L", "M", "N", "O", "P",
     "Q", "R", "S", "T", "U", "V", "W", "X", "Y", "Z", "a", "b", "c", "d", "e", "f",
     "g", "h", "i", "j", "k", "l", "m", "n", "o", "p", "q", "r", "s", "t", "u", "v",
     "w", "x", "y", "z", "0", "1", "2", "3", "4", "5", "6", "7", "8", "9", "+", "/" >>

\* the four characters of a group of one to three bytes (numbers 0..255); pad
\* says whether a short group is filled up with `=`
encode_group(bs, pad) ==
  LET n == Len(bs)
      v == bs[1] * 65536 + (IF n >= 2 THEN bs[2] * 256 ELSE 0) + (IF n >= 3 THEN bs[3] ELSE 0)
      c1 == Base64Alphabet[(v \div 262144) + 1]
      c2 == Base64Alphabet[((v \div 4096) % 64) + 1]
      c3 == Base64Alphabet[((v \div 64) % 64) + 1]
      c4 == Base64Alphabet[(v % 64) + 1]
      fill == IF pad THEN << "=" >> ELSE << >>
  IN  << c1, c2 >> \o (IF n >= 2 THEN << c3 >> ELSE fill) \o (IF n >= 3 THEN << c4 >> ELSE fill)

\* (mutant) the padding is left out
STANDARD_encode_no_pad(bytes) ==
  Concat([g \in 1..((Len(bytes) + 2) \div 3) |->
            encode_group(SubSeq(bytes, 3 * g - 2,
                                IF 3 * g <= Len(bytes) THEN 3 * g ELSE Len(bytes)), FALSE)])

\* STANDARD.encode(&buffer)
STANDARD_encode(bytes) ==
  Concat([g \in 1..((Len(bytes) + 2) \div 3) |->
            encode_group(SubSeq(bytes, 3 * g - 2,
                                IF 3 * g <= Len(bytes) THEN 3 * g ELSE Len(bytes)), TRUE)])

(***************************************************************************)
(* The output operations.  io is what the HTTP client, the server and the  *)
(* file system answer during one invocation: client_error and send_error   *)
(* are the failures of Client::build and of send (None when they succeed), *)
(* status, error_code, validation and body describe the response received, *)
(* write_error is the failure of fs::write.  An operation yields the       *)
(* requests it issued, the file writes it performed and its result.        *)
(***************************************************************************)
\* (mutant) 300 counts as a success
contains_200_300_inclusive(status) == status >= 200 /\ status <= 300

\* (200..300).contains(&status)
contains_200_300(status) == status >= 200 /\ status < 300

\* client.get(self.to_url()).header("User-Agent", self.build_user_agent()), on a
\* client built with .timeout(self.config.timeout)
request_of(self, order) ==
  [ method |-> "GET",
    url |-> to_url(self, order),
    user_agent |-> build_user_agent(self),
    timeout |-> self.config.timeout ]

\* the map_err closure of send: the status is kept when the error has one
send_failure(e) ==
  IF e.status # None
  THEN with_status(ImageChartsError_new(e.text), e.status[1])
  ELSE ImageChartsError_new(e.text)

\* what to_buffer and to_buffer_blocking make of the response received
response_result(io) ==
  IF contains_200_300(io.status)
  THEN IF io.body.tag = "Ok"
       THEN Ok(io.body.value)
       ELSE Err(with_status(ImageChartsError_new(io.body.error), io.status))
  ELSE LET error_code == IF io.error_code = None THEN None ELSE to_str(io.error_code[1])
           validation_header == IF io.validation = None THEN None ELSE to_str(io.validation[1])
       IN  Err(parse_error_response(io.status, error_code, validation_header))

\* (mutant) a failed send is tried a second time
to_buffer_retries(self, order, io) ==
  IF io.client_error # None
  THEN [requests |-> << >>, writes |-> << >>,
        result |-> Err(ImageChartsError_new(io.client_error[1]))]
  ELSE IF io.send_error # None
  THEN [requests |-> << request_of(self, order), request_of(self, order) >>,
        writes |-> << >>,
        result |-> Err(send_failure(io.send_error[1]))]
  ELSE [requests |-> << request_of(self, order) >>, writes |-> << >>,
        result |-> response_result(io)]

\* ImageCharts::to_buffer
to_buffer(self, order, io) ==
  IF io.client_error # None
  THEN [requests |-> << >>, writes |-> << >>,
        result |-> Err(ImageChartsError_new(io.client_error[1]))]
  ELSE IF io.send_error # None
  THEN [requests |-> << request_of(self, order) >>, writes |-> << >>,
        result |-> Err(send_failure(io.send_error[1]))]
  ELSE [requests |-> << request_of(self, order) >>, writes |-> << >>,
        result |-> response_result(io)]

\* ImageCharts::to_buffer_blocking
to_buffer_blocking(self, order, io) ==
  IF io.client_error # None
  THEN [requests |-> << >>, writes |-> << >>,
        result |-> Err(ImageChartsError_new(io.client_error[1]))]
  ELSE IF io.send_error # None
  THEN [requests |-> << request_of(self, order) >>, writes |-> << >>,
        result |-> Err(send_failure(io.send_error[1]))]
  ELSE [requests |-> << request_of(self, order) >>, writes |-> << >>,
        result |-> response_result(io)]

\* (mutant) the error of a failed write carries the status of the response
write_after_keeps_status(f, io, path) ==
  IF f.result.tag = "Err"
  THEN f
  ELSE [requests |-> f.requests,
        writes |-> << [path |-> path, bytes |-> f.result.value] >>,
        result |-> IF io.write_error # None
                   THEN Err(with_status(ImageChartsError_new(io.write_error[1]), io.status))
                   ELSE Ok(<< >>)]

\* let buffer = <fetch>?; fs::write(path, buffer).map_err(...) of to_file and
\* to_file_blocking, after the fetch f
write_after(f, io, path) ==
  IF f.result.tag = "Err"
  THEN f
  ELSE [requests |-> f.requests,
        writes |-> << [path |-> path, bytes |-> f.result.value] >>,
        result |-> IF io.write_error # None
                   THEN Err(ImageChartsError_new(io.write_error[1]))
                   ELSE Ok(<< >>)]

\* ImageCharts::to_file
to_file(self, order, io, path) == write_after(to_buffer(self, order, io), io, path)

\* ImageCharts::to_file_blocking
to_file_blocking(self, order, io, path) ==
  write_after(to_buffer_blocking(self, order, io), io, path)

\* let buffer = <fetch>?; Ok(format!("data:{};base64,{}", mime, encoded)) of
\* to_data_uri and to_data_uri_blocking, after the fetch f
data_uri_after(self, f) ==
  IF f.result.tag = "Err"
  THEN f
  ELSE [requests |-> f.requests, writes |-> << >>,
        result |-> Ok(S_data \o get_mime_type(self) \o S_base64
                        \o STANDARD_encode(f.result.value))]

\* ImageCharts::to_data_uri
to_data_uri(self, order, io) == data_uri_after(self, to_buffer(self, order, io))

\* ImageCharts::to_data_uri_blocking
to_data_uri_blocking(self, order, io) ==
  data_uri_after(self, to_buffer_blocking(self, order, io))

(***************************************************************************)
(* Inputs of the output operations.                                        *)
(***************************************************************************)
\* largest number of output operations invoked in a row on a builder
MaxCalls == 2

\* my-agent/1.0
S_agent ==
  << "m", "y", "-", "a", "g", "e", "n", "t", "/", "1", ".", "0" >>
\* INVALID_CHART_TYPE
S_code ==
  << "I", "N", "V", "A", "L", "I", "D", "_", "C", "H", "A", "R", "T", "_", "T", "Y",
     "P", "E" >>
\* chart.png
S_chart_png ==
  << "c", "h", "a", "r", "t", ".", "p", "n", "g" >>
\* builder error
E_builder ==
  << "b", "u", "i", "l", "d", "e", "r", " ", "e", "r", "r", "o", "r" >>
\* operation timed out
E_timeout ==
  << "o", "p", "e", "r", "a", "t", "i", "o", "n", " ", "t", "i", "m", "e", "d", " ",
     "o", "u", "t" >>
\* error decoding response body
E_decode ==
  << "e", "r", "r", "o", "r", " ", "d", "e", "c", "o", "d", "i", "n", "g", " ", "r",
     "e", "s", "p", "o", "n", "s", "e", " ", "b", "o", "d", "y" >>
\* Permission denied (os error 13)
E_denied ==
  << "P", "e", "r", "m", "i", "s", "s", "i", "o", "n", " ", "d", "e", "n", "i", "e",
     "d", " ", "(", "o", "s", " ", "e", "r", "r", "o", "r", " ", "1", "3", ")" >>
\* a header value with bytes that are not visible ASCII
H_binary == << "<C3>", "<A9>" >>

\* response bodies: the first bytes of a PNG and of a GIF, two bytes, none
B_png == << 137, 80, 78, 71 >>
B_gif == << 71, 73, 70, 56, 57, 97 >>
B_two == << 77, 97 >>
B_none == << >>
Bodies == {B_png, B_gif, B_two, B_none}

\* a response was received
Received(status, error_code, validation, body, write_error) ==
  [ client_error |-> None, send_error |-> None, status |-> status,
    error_code |-> error_code, validation |-> validation, body |-> body,
    write_error |-> write_error ]

\* Client::build failed
ClientFailed(text) ==
  [ client_error |-> Some(text), send_error |-> None, status |-> 0,
    error_code |-> None, validation |-> None, body |-> Err(text),
    write_error |-> None ]

\* send failed, with or without a status on the error
SendFailed(text, status) ==
  [ client_error |-> None, send_error |-> Some([text |-> text, status |-> status]),
    status |-> 0, error_code |-> None, validation |-> None, body |-> Err(text),
    write_error |-> None ]

ValidationTexts ==
  {T_one, T_two, T_none, T_garbage, T_object, T_nofield, T_extra, T_number, T_twice,
   T_tuple, T_accent}

Failures ==
  {ClientFailed(E_builder), SendFailed(E_timeout, None), SendFailed(E_timeout, Some(502))}

\* what to_buffer may meet: every failure, successes with and without a
\* readable body, and error responses with every combination of the headers
FetchIOs ==
  Failures
  \cup {Received(s, None, None, Ok(body), None) : s \in {200, 299}, body \in Bodies}
  \cup {Received(s, Some(S_code), Some(T_one), Err(E_decode), None) : s \in {200, 299}}
  \cup {Received(s, code, v, Ok(B_png), None) :
          s \in {199, 300, 404, 500}, code \in {None, Some(S_code)},
          v \in {None, Some(T_one)}}
  \cup {Received(422, code, v, Ok(B_png), None) :
          code \in {None, Some(S_code), Some(H_binary)},
          v \in {None} \cup {Some(t) : t \in ValidationTexts}}

\* what the operations built on a fetch may meet, the outcome of the file
\* write included
OutputIOs ==
  Failures
  \cup {Received(200, None, None, Ok(body), w) :
          body \in Bodies, w \in {None, Some(E_denied)}}
  \cup {Received(200, None, None, Err(E_decode), None),
        Received(404, None, None, Ok(B_png), None),
        Received(300, Some(S_code), None, Ok(B_png), Some(E_denied)),
        Received(422, Some(S_code), Some(T_two), Ok(B_png), None)}

FetchKeys == {K_chan, K_icac}
FetchValues == {<< >>, V_data}
FetchConfigs ==
  { ImageChartsConfig_default,
    [ImageChartsConfig_default EXCEPT !.user_agent = Some(S_agent)],
    [ImageChartsConfig_default EXCEPT !.secret = Some(S_plop), !.port = 8080,
                                      !.timeout = 250] }

(***************************************************************************)
(* The output operations as steps.  The record of the last operation       *)
(* carries what the operation met (io), the requests it issued, the file   *)
(* writes it performed, its result, and two counts over the output         *)
(* operations invoked in a row since the builder was last touched: calls,  *)
(* the invocations, and sent, the requests they issued.                    *)
(***************************************************************************)
OutputOps ==
  {"to_buffer", "to_buffer_blocking", "to_file", "to_file_blocking", "to_data_uri",
   "to_data_uri_blocking"}

CallsSoFar == IF last.op \in OutputOps THEN last.calls ELSE 0
SentSoFar == IF last.op \in OutputOps THEN last.sent ELSE 0

Outcome(op, b, io, r) ==
  [ op |-> op, b |-> b, url |-> NoUrl, io |-> io,
    requests |-> r.requests, writes |-> r.writes, result |-> r.result,
    calls |-> CallsSoFar + 1, sent |-> SentSoFar + Len(r.requests) ]

InitFetch ==
  /\ \E config \in FetchConfigs : builders = (1 :> with_config(config))
  /\ last = [op |-> "new", b |-> 1, url |-> NoUrl]

\* a call of to_buffer(&self)
ToBuffer(b, io) ==
  /\ b \in DOMAIN builders
  /\ CallsSoFar < MaxCalls
  /\ \E order \in IterOrders(builders[b].query) :
       last' = Outcome("to_buffer", b, io, to_buffer(builders[b], order, io))
  /\ UNCHANGED builders

\* a call of to_buffer_blocking(&self)
ToBufferBlocking(b, io) ==
  /\ b \in DOMAIN builders
  /\ CallsSoFar < MaxCalls
  /\ \E order \in IterOrders(builders[b].query) :
       last' = Outcome("to_buffer_blocking", b, io,
                       to_buffer_blocking(builders[b], order, io))
  /\ UNCHANGED builders

\* a call of to_file(&self, path)
ToFile(b, io, path) ==
  /\ b \in DOMAIN builders
  /\ CallsSoFar < MaxCalls
  /\ \E order \in IterOrders(builders[b].query) :
       last' = Outcome("to_file", b, io, to_file(builders[b], order, io, path))
  /\ UNCHANGED builders

\* a call of to_file_blocking(&self, path)
ToFileBlocking(b, io, path) ==
  /\ b \in DOMAIN builders
  /\ CallsSoFar < MaxCalls
  /\ \E order \in IterOrders(builders[b].query) :
       last' = Outcome("to_file_blocking", b, io,
                       to_file_blocking(builders[b], order, io, path))
  /\ UNCHANGED builders

\* a call of to_data_uri(&self)
ToDataUri(b, io) ==
  /\ b \in DOMAIN builders
  /\ CallsSoFar < MaxCalls
  /\ \E order \in IterOrders(builders[b].query) :
       last' = Outcome("to_data_uri", b, io, to_data_uri(builders[b], order, io))
  /\ UNCHANGED builders

\* a call of to_data_uri_blocking(&self)
ToDataUriBlocking(b, io) ==
  /\ b \in DOMAIN builders
  /\ CallsSoFar < MaxCalls
  /\ \E order \in IterOrders(builders[b].query) :
       last' = Outcome("to_data_uri_blocking", b, io,
                       to_data_uri_blocking(builders[b], order, io))
  /\ UNCHANGED builders

NextFetch ==
  \/ \E b \in DOMAIN builders, key \in FetchKeys, value \in FetchValues :
       Setter(b, key, value)
  \/ \E b \in DOMAIN builders, io \in FetchIOs : ToBuffer(b, io)
  \/ \E b \in DOMAIN builders, io \in FetchIOs : ToBufferBlocking(b, io)

NextOutput ==
  \/ \E b \in DOMAIN builders, key \in FetchKeys, value \in FetchValues :
       Setter(b, key, value)
  \/ \E b \in DOMAIN builders, io \in OutputIOs : ToBuffer(b, io)
  \/ \E b \in DOMAIN builders, io \in OutputIOs : ToBufferBlocking(b, io)
  \/ \E b \in DOMAIN builders, io \in OutputIOs : ToFile(b, io, S_chart_png)
  \/ \E b \in DOMAIN builders, io \in OutputIOs : ToFileBlocking(b, io, S_chart_png)
  \/ \E b \in DOMAIN builders, io \in OutputIOs : ToDataUri(b, io)
  \/ \E b \in DOMAIN builders, io \in OutputIOs : ToDataUriBlocking(b, io)

\* a builder, its setters, and the two fetch operations against every answer
SpecFetch == InitFetch /\ [][NextFetch]_vars

\* a builder, its setters, and the six output operations
SpecOutput == InitFetch /\ [][NextOutput]_vars

(***************************************************************************)
(* Observation of an output operation.                                     *)
(***************************************************************************)
OutputCalled == last.op \in OutputOps
FetchCalled == last.op \in {"to_buffer", "to_buffer_blocking"}
\* the operation received a response
ResponseReceived ==
  OutputCalled /\ last.io.client_error = None /\ last.io.send_error = None
InSuccessRange(status) == 200 <= status /\ status < 300
\* the response received has a status outside [200,300)
Rejected == ResponseReceived /\ ~InSuccessRange(last.io.status)
Failed == OutputCalled /\ last.result.tag = "Err"
Succeeded == OutputCalled /\ last.result.tag = "Ok"

\* a header is present and its value is text (visible ASCII bytes only)
Readable(header) ==
  header # None /\ \A i \in 1..Len(header[1]) : Code[header[1][i]] \in 32..126

\* the messages a validation header text lists, joined with newlines: Some of
\* them when the text is a JSON array whose every element carries exactly one
\* string message (an object with that field, or the one-element positional
\* form), None for every other text
JoinedMessages(text) ==
  CASE text = T_one -> Some(M_chs)
    [] text = T_two -> Some(M_chs \o << "<0A>" >> \o M_cht)
    [] text = T_none -> Some(<< >>)
    [] text = T_extra -> Some(M_cht)
    [] text = T_tuple -> Some(M_cht)
    [] text = T_accent -> Some(<< "<C3>", "<A9>" >>)
    [] OTHER -> None

\* the text `HTTP <status>`
HttpText(status) ==
  << "H", "T", "T", "P", " " >> \o
    (CASE status = 199 -> << "1", "9", "9" >>
       [] status = 300 -> << "3", "0", "0" >>
       [] status = 404 -> << "4", "0", "4" >>
       [] status = 422 -> << "4", "2", "2" >>
       [] status = 500 -> << "5", "0", "0" >>
       [] OTHER -> << "?" >>)

(***************************************************************************)
(* C12.  For a response with a status outside [200,300) the message of the *)
(* error is chosen by strict priority: the newline-joined message fields   *)
(* of the x-ic-error-validation header when present, else the              *)
(* x-ic-error-code header value when present, else `HTTP <status>`; the    *)
(* error always carries the status.                                        *)
(***************************************************************************)
\* C12 (original): for a rejected response the message is the joined messages of
\* the validation header whenever that header is present, else the error code
\* header whenever that one is present, else HTTP <status>; the status is carried
C12_Original ==
  (FetchCalled /\ Rejected) =>
    /\ last.result.tag = "Err"
    /\ last.result.error.status_code = Some(last.io.status)
    /\ IF last.io.validation # None
       THEN /\ JoinedMessages(last.io.validation[1]) # None
            /\ last.result.error.message = JoinedMessages(last.io.validation[1])[1]
       ELSE IF last.io.error_code # None
       THEN last.result.error.message = last.io.error_code[1]
       ELSE last.result.error.message = HttpText(last.io.status)

\* C12 (amended): for a rejected response the message is the joined messages of
\* the validation header when that header is present, is text and lists
\* messages; else the error code header when it is present and is text; else
\* HTTP <status>; the error always carries the status
C12_MessagePriority ==
  (FetchCalled /\ Rejected) =>
    /\ last.result.tag = "Err"
    /\ last.result.error.status_code = Some(last.io.status)
    /\ last.result.error.message =
         IF Readable(last.io.validation) /\ JoinedMessages(last.io.validation[1]) # None
         THEN JoinedMessages(last.io.validation[1])[1]
         ELSE IF Readable(last.io.error_code)
         THEN last.io.error_code[1]
         ELSE HttpText(last.io.status)

\* status 422 with the validation header [{"message":"chs is required"}] and an
\* error code header: the message is `chs is required`, the status 422
C12_Witness ==
  /\ FetchCalled /\ Rejected
  /\ last.io.status = 422
  /\ last.io.validation = Some(T_one)
  /\ last.io.error_code = Some(S_code)
  /\ last.result.tag = "Err"
  /\ last.result.error.message = M_chs
  /\ last.result.error.status_code = Some(422)

(***************************************************************************)
(* C13.  to_buffer and to_buffer_blocking classify a received response     *)
(* purely by status: a status in [200,300) with a readable body yields the *)
(* body bytes, a status outside [200,300) yields an error and never the    *)
(* body; the two variants classify identically.                            *)
(***************************************************************************)
\* C13: a fetch that received a response returns the body bytes when the status
\* is in [200,300) and the body is readable, returns an error when the status is
\* outside [200,300) whatever the body, and the async and the blocking variant
\* return the same result for the same builder and response
C13_ClassifiedByStatus ==
  (FetchCalled /\ ResponseReceived) =>
    /\ (InSuccessRange(last.io.status) /\ last.io.body.tag = "Ok") =>
         (last.result.tag = "Ok" /\ last.result.value = last.io.body.value)
    /\ ~InSuccessRange(last.io.status) => last.result.tag = "Err"
    /\ \A order \in IterOrders(Self.query) :
         /\ to_buffer(Self, order, last.io).result = last.result
         /\ to_buffer_blocking(Self, order, last.io).result = last.result

\* the blocking fetch received status 300 with a body and returned an error
\* that carries the status
C13_Witness ==
  /\ last.op = "to_buffer_blocking" /\ ResponseReceived
  /\ last.io.status = 300
  /\ last.io.body = Ok(B_png)
  /\ last.result.tag = "Err"
  /\ last.result.error.status_code = Some(300)

(***************************************************************************)
(* C14.  get_mime_type returns image/gif and get_file_format returns gif   *)
(* exactly when the ParameterSet contains the key chan, whatever its       *)
(* value, the empty string included; otherwise image/png and png.          *)
(***************************************************************************)
\* C14: for every builder the MIME type is image/gif and the file format gif
\* when the key chan is in the ParameterSet, image/png and png when it is not,
\* and a data URI returned for the builder names that MIME type
C14_GifIffChan ==
  /\ \A b \in DOMAIN builders :
       IF K_chan \in DOMAIN builders[b].query
       THEN /\ get_mime_type(builders[b]) = << "i", "m", "a", "g", "e", "/", "g", "i", "f" >>
            /\ get_file_format(builders[b]) = << "g", "i", "f" >>
       ELSE /\ get_mime_type(builders[b]) = << "i", "m", "a", "g", "e", "/", "p", "n", "g" >>
            /\ get_file_format(builders[b]) = << "p", "n", "g" >>
  /\ (last.op \in {"to_data_uri", "to_data_uri_blocking"} /\ last.result.tag = "Ok") =>
       StartsWith(last.result.value,
                  IF K_chan \in Params
                  THEN << "d", "a", "t", "a", ":", "i", "m", "a", "g", "e", "/", "g", "i", "f", ";" >>
                  ELSE << "d", "a", "t", "a", ":", "i", "m", "a", "g", "e", "/", "p", "n", "g", ";" >>)

\* chan is set to the empty string and a data URI was returned as image/gif
C14_Witness ==
  /\ last.op = "to_data_uri" /\ last.result.tag = "Ok"
  /\ K_chan \in Params /\ Self.query[K_chan] = << >>
  /\ StartsWith(last.result.value,
                << "d", "a", "t", "a", ":", "i", "m", "a", "g", "e", "/", "g", "i", "f", ";" >>)
  /\ get_file_format(Self) = << "g", "i", "f" >>

(***************************************************************************)
(* C15.  On success to_data_uri and to_data_uri_blocking return exactly    *)
(* `data:<mime>;base64,<base64 of the returned bytes>`, where <mime> is    *)
(* the type C14 derives.                                                   *)
(***************************************************************************)
\* the standard padded base64 text of the modelled bodies
Base64Of(bytes) ==
  CASE bytes = B_png -> << "i", "V", "B", "O", "R", "w", "=", "=" >>
    [] bytes = B_gif -> << "R", "0", "l", "G", "O", "D", "l", "h" >>
    [] bytes = B_two -> << "T", "W", "E", "=" >>
    [] bytes = B_none -> << >>

DataUriCalled == last.op \in {"to_data_uri", "to_data_uri_blocking"}

\* C15: a data URI operation succeeds exactly when its fetch received a status
\* in [200,300) with a readable body, and it then returns `data:`, the MIME
\* type of the builder, `;base64,` and the padded base64 text of the body
C15_DataUri ==
  DataUriCalled =>
    /\ last.result.tag = "Ok" <=>
         (ResponseReceived /\ InSuccessRange(last.io.status) /\ last.io.body.tag = "Ok")
    /\ last.result.tag = "Ok" =>
         last.result.value =
           << "d", "a", "t", "a", ":" >>
             \o (IF K_chan \in Params
                 THEN << "i", "m", "a", "g", "e", "/", "g", "i", "f" >>
                 ELSE << "i", "m", "a", "g", "e", "/", "p", "n", "g" >>)
             \o << ";", "b", "a", "s", "e", "6", "4", "," >>
             \o Base64Of(last.io.body.value)

\* the blocking data URI of a four-byte body, padded with ==
C15_Witness ==
  /\ last.op = "to_data_uri_blocking" /\ last.result.tag = "Ok"
  /\ last.io.body = Ok(B_png)
  /\ K_chan \notin Params
  /\ last.result.value =
       << "d", "a", "t", "a", ":", "i", "m", "a", "g", "e", "/", "p", "n", "g", ";",
          "b", "a", "s", "e", "6", "4", ",", "i", "V", "B", "O", "R", "w", "=", "=" >>

(***************************************************************************)
(* C16.  The User-Agent of an outgoing request is the caller-supplied      *)
(* user_agent whenever one is configured, whether or not icac is present;  *)
(* otherwise `<client-name>/<version> (<account-id>)` when icac is in the  *)
(* ParameterSet and plain `<client-name>/<version>` when it is not.        *)
(***************************************************************************)
\* rust-image_charts/<version>
ClientNameVersion ==
  << "r", "u", "s", "t", "-", "i", "m", "a", "g", "e", "_", "c", "h", "a", "r", "t", "s",
     "/", "<CARGO_PKG_VERSION>" >>

\* C16: every request issued by an output operation carries the configured
\* user_agent when there is one, else the client name and version followed by
\* the value of icac in parentheses when icac is set, else name and version alone
C16_UserAgent ==
  OutputCalled =>
    \A i \in 1..Len(last.requests) :
      last.requests[i].user_agent =
        IF Self.config.user_agent # None
        THEN Self.config.user_agent[1]
        ELSE IF K_icac \in Params
        THEN ClientNameVersion \o << " ", "(" >> \o Self.query[K_icac] \o << ")" >>
        ELSE ClientNameVersion

\* a request went out with the caller's User-Agent although icac is set
C16_Witness ==
  /\ OutputCalled /\ Len(last.requests) = 1
  /\ Self.config.user_agent = Some(S_agent)
  /\ K_icac \in Params /\ Self.query[K_icac] = V_data
  /\ last.requests[1].user_agent = S_agent

(***************************************************************************)
(* Construction: ImageChartsBuilder, its knobs and build, next to the      *)
(* constructors new and with_secret.  The ImageChartsBuilder value         *)
(* returned by the last call is the field knobs of the record of the last  *)
(* operation; builders is empty until an ImageCharts exists.               *)
(***************************************************************************)
\* #[derive(Default)] on ImageChartsBuilder, returned by ImageCharts::builder()
ImageChartsBuilder_default ==
  [ protocol |-> None, host |-> None, port |-> None, pathname |-> None,
    timeout |-> None, secret |-> None, user_agent |-> None ]

\* ImageChartsBuilder::protocol
protocol(self, value) == [self EXCEPT !.protocol = Some(value)]
\* ImageChartsBuilder::host
host(self, value) == [self EXCEPT !.host = Some(value)]
\* ImageChartsBuilder::port
port(self, value) == [self EXCEPT !.port = Some(value)]
\* ImageChartsBuilder::pathname
pathname(self, value) == [self EXCEPT !.pathname = Some(value)]
\* ImageChartsBuilder::timeout
timeout(self, value) == [self EXCEPT !.timeout = Some(value)]
\* ImageChartsBuilder::secret
secret(self, value) == [self EXCEPT !.secret = Some(value)]
\* ImageChartsBuilder::user_agent
user_agent(self, value) == [self EXCEPT !.user_agent = Some(value)]

\* Option::unwrap_or
unwrap_or(option, default) == IF option # None THEN option[1] ELSE default

\* (mutant) the timeout knob is not read
build_ignores_timeout(self) ==
  LET default == ImageChartsConfig_default
  IN  with_config([ protocol |-> unwrap_or(self.protocol, default.protocol),
                    host |-> unwrap_or(self.host, default.host),
                    port |-> unwrap_or(self.port, default.port),
                    pathname |-> unwrap_or(self.pathname, default.pathname),
                    timeout |-> default.timeout,
                    secret |-> self.secret,
                    user_agent |-> self.user_agent ])

\* ImageChartsBuilder::build
build(self) ==
  LET default == ImageChartsConfig_default
  IN  with_config([ protocol |-> unwrap_or(self.protocol, default.protocol),
                    host |-> unwrap_or(self.host, default.host),
                    port |-> unwrap_or(self.port, default.port),
                    pathname |-> unwrap_or(self.pathname, default.pathname),
                    timeout |-> unwrap_or(self.timeout, default.timeout),
                    secret |-> self.secret,
                    user_agent |-> self.user_agent ])

KnobOps == {"builder", "protocol", "host", "port", "pathname", "timeout", "secret", "user_agent"}
KnobPorts == {80, 8080}
KnobTimeouts == {250, 10000}
KnobSecrets == {<< >>, S_plop}

\* the program before any constructor is called: no instance exists
InitBuild ==
  /\ builders = << >>
  /\ last = [op |-> "start", b |-> 0, url |-> NoUrl]

\* the record of a call that returned the ImageChartsBuilder value knobs
Configuring(op, knobs) == [op |-> op, b |-> 0, url |-> NoUrl, knobs |-> knobs]

\* ImageCharts::new()
New ==
  /\ last.op = "start"
  /\ builders' = (1 :> new)
  /\ last' = [op |-> "new", b |-> 1, url |-> NoUrl]

\* ImageCharts::with_secret(value)
WithSecret(value) ==
  /\ last.op = "start"
  /\ builders' = (1 :> with_secret(value))
  /\ last' = [op |-> "with_secret", b |-> 1, url |-> NoUrl]

\* ImageCharts::builder()
Builder ==
  /\ last.op = "start"
  /\ last' = Configuring("builder", ImageChartsBuilder_default)
  /\ UNCHANGED builders

KnobProtocol(value) ==
  /\ last.op \in KnobOps
  /\ last' = Configuring("protocol", protocol(last.knobs, value))
  /\ UNCHANGED builders

KnobHost(value) ==
  /\ last.op \in KnobOps
  /\ last' = Configuring("host", host(last.knobs, value))
  /\ UNCHANGED builders

KnobPort(value) ==
  /\ last.op \in KnobOps
  /\ last' = Configuring("port", port(last.knobs, value))
  /\ UNCHANGED builders

KnobPathname(value) ==
  /\ last.op \in KnobOps
  /\ last' = Configuring("pathname", pathname(last.knobs, value))
  /\ UNCHANGED builders

KnobTimeout(value) ==
  /\ last.op \in KnobOps
  /\ last' = Configuring("timeout", timeout(last.knobs, value))
  /\ UNCHANGED builders

KnobSecret(value) ==
  /\ last.op \in KnobOps
  /\ last' = Configuring("secret", secret(last.knobs, value))
  /\ UNCHANGED builders

KnobUserAgent(value) ==
  /\ last.op \in KnobOps
  /\ last' = Configuring("user_agent", user_agent(last.knobs, value))
  /\ UNCHANGED builders

\* ImageChartsBuilder::build(self): the ImageChartsBuilder is consumed
Build ==
  /\ last.op \in KnobOps
  /\ builders' = (1 :> build(last.knobs))
  /\ last' = [Configuring("build", last.knobs) EXCEPT !.b = 1]

NextBuild ==
  \/ New
  \/ \E value \in KnobSecrets : WithSecret(value)
  \/ Builder
  \/ \E value \in {S_http, S_ftp} : KnobProtocol(value)
  \/ \E value \in {S_localhost} : KnobHost(value)
  \/ \E value \in KnobPorts : KnobPort(value)
  \/ \E value \in {S_v1} : KnobPathname(value)
  \/ \E value \in KnobTimeouts : KnobTimeout(value)
  \/ \E value \in KnobSecrets : KnobSecret(value)
  \/ \E value \in {S_agent} : KnobUserAgent(value)
  \/ Build

\* the constructors and the configuration builder
SpecBuild == InitBuild /\ [][NextBuild]_vars

(***************************************************************************)
(* C17.  With no configuration supplied the Configuration is https,        *)
(* image-charts.com, 443, /chart, 5000 ms, no secret, no user-agent;       *)
(* build yields a Configuration in which each set knob has the last value  *)
(* the caller gave and each unset knob that default; with_secret differs   *)
(* from the default only in the secret.                                    *)
(***************************************************************************)
\* the documented default Configuration
DocumentedDefault ==
  [ protocol |-> << "h", "t", "t", "p", "s" >>,
    host |-> << "i", "m", "a", "g", "e", "-", "c", "h", "a", "r", "t", "s", ".", "c", "o", "m" >>,
    port |-> 443,
    pathname |-> << "/", "c", "h", "a", "r", "t" >>,
    timeout |-> 5000,
    secret |-> << >>,
    user_agent |-> << >> ]

\* the value of a knob after build: the value set, or the default
KnobOr(knob, default) == IF knob = << >> THEN default ELSE knob[1]

\* C17: new gives the documented default Configuration and with_secret the same
\* with the secret given; a knob call records its value over any earlier one
\* and leaves the other knobs alone; build gives every set knob its recorded
\* value and every unset knob the default, and an empty ParameterSet
C17_DefaultsAndKnobs ==
  [][/\ New => builders'[1].config = DocumentedDefault
     /\ \A value \in KnobSecrets :
          WithSecret(value) =>
            builders'[1].config = [DocumentedDefault EXCEPT !.secret = << value >>]
     /\ \A value \in {S_http, S_ftp} :
          KnobProtocol(value) => last'.knobs = [last.knobs EXCEPT !.protocol = << value >>]
     /\ KnobHost(S_localhost) => last'.knobs = [last.knobs EXCEPT !.host = << S_localhost >>]
     /\ \A value \in KnobPorts :
          KnobPort(value) => last'.knobs = [last.knobs EXCEPT !.port = << value >>]
     /\ KnobPathname(S_v1) => last'.knobs = [last.knobs EXCEPT !.pathname = << S_v1 >>]
     /\ \A value \in KnobTimeouts :
          KnobTimeout(value) => last'.knobs = [last.knobs EXCEPT !.timeout = << value >>]
     /\ \A value \in KnobSecrets :
          KnobSecret(value) => last'.knobs = [last.knobs EXCEPT !.secret = << value >>]
     /\ KnobUserAgent(S_agent) => last'.knobs = [last.knobs EXCEPT !.user_agent = << S_agent >>]
     /\ Build =>
          /\ builders'[1].query = EmptyQuery
          /\ builders'[1].config =
               [ protocol |-> KnobOr(last.knobs.protocol, DocumentedDefault.protocol),
                 host |-> KnobOr(last.knobs.host, DocumentedDefault.host),
                 port |-> KnobOr(last.knobs.port, DocumentedDefault.port),
                 pathname |-> KnobOr(last.knobs.pathname, DocumentedDefault.pathname),
                 timeout |-> KnobOr(last.knobs.timeout, DocumentedDefault.timeout),
                 secret |-> last.knobs.secret,
                 user_agent |-> last.knobs.user_agent ]]_vars

\* build after port and timeout were set and the other knobs were not: the
\* Configuration has the two values set and the defaults elsewhere
C17_Witness ==
  /\ last.op = "build"
  /\ last.knobs = [ImageChartsBuilder_default EXCEPT !.port = << 8080 >>, !.timeout = << 10000 >>]
  /\ builders[1].config = [DocumentedDefault EXCEPT !.port = 8080, !.timeout = 10000]

(***************************************************************************)
(* C18.  Every output operation issues at most one HTTP GET request, built *)
(* from a fresh to_url serialization, and never a second request after a   *)
(* failure; N invocations issue N independent requests, no result is       *)
(* carried over from one invocation to the next.                           *)
(***************************************************************************)
\* the number of requests an invocation issues: one unless the HTTP client
\* could not be built
RequestsDue == IF last.io.client_error = << >> THEN 1 ELSE 0

\* C18: an output operation issues exactly one request, a GET of the URL to_url
\* gives for the builder as it is now, or none when the client cannot be
\* built, so never two, whether it fails or not; it succeeds only on the
\* success response of its own request, and a fetch then returns the body of
\* that response; the requests issued by consecutive invocations add up, one
\* invocation after the other
C18_OneRequestPerCall ==
  /\ [](OutputCalled =>
          /\ Len(last.requests) = RequestsDue
          /\ \A i \in 1..Len(last.requests) :
               /\ last.requests[i].method = "GET"
               /\ last.requests[i].url \in UrlsOf(Self)
          /\ last.sent <= last.calls
          /\ last.result.tag = "Ok" =>
               /\ ResponseReceived
               /\ InSuccessRange(last.io.status)
               /\ last.io.body.tag = "Ok"
               /\ FetchCalled => last.result.value = last.io.body.value)
  /\ [][last'.op \in OutputOps =>
          /\ last'.calls = (IF OutputCalled THEN last.calls ELSE 0) + 1
          /\ last'.sent = (IF OutputCalled THEN last.sent ELSE 0)
                            + (IF last'.io.client_error = << >> THEN 1 ELSE 0)]_vars

\* the second of two invocations in a row failed on the answer to its own
\* request: two invocations, two requests, one each
C18_Witness ==
  /\ OutputCalled
  /\ last.calls = 2 /\ last.sent = 2
  /\ Len(last.requests) = 1
  /\ last.result.tag = "Err"
  /\ last.io.send_error # << >>

(***************************************************************************)
(* C19.  to_file and to_data_uri, and their blocking variants, propagate a *)
(* failure of the fetch unchanged; on a fetch failure to_file performs no  *)
(* file write; a failure of the write after a successful fetch yields an   *)
(* error with the I/O cause as message, no status and no code.             *)
(***************************************************************************)
FileCalled == last.op \in {"to_file", "to_file_blocking"}

\* the result of the fetch on what the last operation met
FetchResults == {to_buffer(Self, order, last.io).result : order \in IterOrders(Self.query)}

\* C19: when the fetch fails, to_file and to_data_uri return the error of the
\* fetch as it is and to_file writes nothing; when the fetch succeeds to_file
\* writes the bytes fetched to the path once, and if that write fails the
\* error has the text of the I/O failure as message, no status and no code
C19_FailurePropagation ==
  (FileCalled \/ DataUriCalled) =>
    \A fetched \in FetchResults :
      /\ fetched.tag = "Err" =>
           /\ last.result.tag = "Err"
           /\ last.result.error.message = fetched.error.message
           /\ last.result.error.code = fetched.error.code
           /\ last.result.error.status_code = fetched.error.status_code
           /\ last.writes = << >>
      /\ (fetched.tag = "Ok" /\ FileCalled) =>
           /\ last.writes = << [path |-> S_chart_png, bytes |-> last.io.body.value] >>
           /\ IF last.io.write_error = << >>
              THEN last.result.tag = "Ok"
              ELSE /\ last.result.tag = "Err"
                   /\ last.result.error.message = last.io.write_error[1]
                   /\ last.result.error.code = << >>
                   /\ last.result.error.status_code = << >>

\* to_file fetched a body with status 200 and the write was refused: the error
\* is `Permission denied (os error 13)` with neither status nor code
C19_Witness ==
  /\ last.op = "to_file"
  /\ last.io.status = 200 /\ last.io.body = Ok(B_gif)
  /\ last.io.write_error = Some(E_denied)
  /\ Len(last.writes) = 1
  /\ last.result.tag = "Err"
  /\ last.result.error = [message |-> E_denied, code |-> << >>, status_code |-> << >>]

(***************************************************************************)
(* Two builders with Configurations of their own.                          *)
(***************************************************************************)
S_other_secret == << "s", "3", "c", "r", "e", "t" >>

PairConfigs ==
  { ImageChartsConfig_default,
    [ImageChartsConfig_default EXCEPT !.secret = Some(<< >>)],
    [ImageChartsConfig_default EXCEPT !.secret = Some(S_plop)],
    [ImageChartsConfig_default EXCEPT !.secret = Some(S_other_secret)],
    [ImageChartsConfig_default EXCEPT !.secret = Some(S_plop), !.host = S_localhost,
                                      !.port = 8080] }

InitPair ==
  /\ \E c1 \in PairConfigs, c2 \in PairConfigs :
       builders = (1 :> with_config(c1)) @@ (2 :> with_config(c2))
  /\ last = [op |-> "new", b |-> 2, url |-> NoUrl]

NextPair ==
  \/ \E b \in DOMAIN builders, key \in BranchKeys, value \in BranchValues :
       Setter(b, key, value)
  \/ \E b \in DOMAIN builders : ToUrl(b)

\* two builders constructed from two Configurations, their setters and to_url
SpecPair == InitPair /\ [][NextPair]_vars

(***************************************************************************)
(* C20.  Serialization is a pure function of (ParameterSet,                *)
(* secret-presence, account-id-presence): two to_url calls whose           *)
(* ParameterSets are equal and that agree on whether a non-empty secret is *)
(* present and on whether icac is present produce byte-identical query     *)
(* strings.                                                                *)
(***************************************************************************)
HasNonEmptySecret(self) == self.config.secret # << >> /\ self.config.secret[1] # << >>
\* to_url signs for this builder
Signs(self) == K_icac \in DOMAIN self.query /\ HasNonEmptySecret(self)

\* C20 (original): two consecutive to_url calls on builders with equal
\* ParameterSets that agree on the presence of a non-empty secret (and so on
\* the presence of icac) return the same query string
C20_Original ==
  [][(/\ last.op = "to_url" /\ last'.op = "to_url"
      /\ builders[last.b].query = builders'[last'.b].query
      /\ HasNonEmptySecret(builders[last.b]) <=> HasNonEmptySecret(builders'[last'.b])
      /\ (K_icac \in DOMAIN builders[last.b].query)
           <=> (K_icac \in DOMAIN builders'[last'.b].query))
     => QueryOf(last'.url) = QueryOf(last.url)]_vars

\* C20 (amended): two consecutive to_url calls on builders with equal
\* ParameterSets return the same query string when neither call signs, or when
\* both sign with the same secret
C20_SameInputsSameQuery ==
  [][(/\ last.op = "to_url" /\ last'.op = "to_url"
      /\ builders[last.b].query = builders'[last'.b].query
      /\ \/ ~Signs(builders[last.b]) /\ ~Signs(builders'[last'.b])
         \/ /\ Signs(builders[last.b]) /\ Signs(builders'[last'.b])
            /\ builders[last.b].config.secret = builders'[last'.b].config.secret)
     => QueryOf(last'.url) = QueryOf(last.url)]_vars

\* to_url signed for the second builder; the first has the same ParameterSet
\* and secret under another host and port, and gets the same query string
C20_Witness ==
  /\ Called /\ last.b = 2
  /\ builders[1].query = builders[2].query
  /\ Signs(builders[1]) /\ Signs(builders[2])
  /\ builders[1].config.secret = builders[2].config.secret
  /\ builders[1].config.host # builders[2].config.host
  /\ SignatureAppended
  /\ \A url \in UrlsOf(builders[1]) : QueryOf(url) = QueryOf(Url)

(***************************************************************************)
(* C21.  For a response with a status outside [200,300) the code of the    *)
(* error is the x-ic-error-code header value exactly when that header is   *)
(* present, whichever source supplied the message.                         *)
(***************************************************************************)
\* C21 (original): the error of a rejected response has the value of the error
\* code header as its code whenever the header is present, and no code when
\* the header is absent
C21_Original ==
  (FetchCalled /\ Rejected) =>
    /\ last.result.tag = "Err"
    /\ last.result.error.code = last.io.error_code

\* C21 (amended): the error of a rejected response has the value of the error
\* code header as its code when the header is present and is text, and no
\* code otherwise, whether the message came from the validation header, from
\* the code or from the status
C21_CodeCarried ==
  (FetchCalled /\ Rejected) =>
    /\ last.result.tag = "Err"
    /\ last.result.error.code =
         IF Readable(last.io.error_code) THEN last.io.error_code ELSE << >>

\* the message came from the validation header and the error still carries
\* the code of the error code header
C21_Witness ==
  /\ FetchCalled /\ Rejected
  /\ last.io.validation = Some(T_two)
  /\ last.io.error_code = Some(S_code)
  /\ last.result.tag = "Err"
  /\ last.result.error.message = M_chs \o << "<0A>" >> \o M_cht
  /\ last.result.error.code = Some(S_code)

(***************************************************************************)
(* Concurrent calls of to_url(&self) on one builder, step by step.  Each   *)
(* thread owns the locals of its call: pairs, query_string and the URL it  *)
(* returns.  The threads of the calls are the field threads of the record  *)
(* of the last operation.  A setter consumes the builder, so it runs only  *)
(* when no call holds a reference to it.                                   *)
(***************************************************************************)
\* largest number of threads calling to_url on the builder
MaxThreads == 2

Threads == 1..MaxThreads

IdleThread == [pc |-> "idle", pairs |-> << >>, query_string |-> << >>, url |-> NoUrl]

\* the calls in progress or returned since the builder was last touched
ThreadsNow ==
  IF last.op = "to_url_step" THEN last.threads ELSE [t \in Threads |-> IdleThread]

NoCallInFlight == \A t \in Threads : ThreadsNow[t].pc \in {"idle", "returned"}

Stepped(b, t, thread) ==
  [op |-> "to_url_step", b |-> b, url |-> NoUrl, threads |-> [ThreadsNow EXCEPT ![t] = thread]]

\* (mutant) collecting the pairs takes them out of the map
ToUrlCollect_Drains(b, t) ==
  /\ b \in DOMAIN builders
  /\ ThreadsNow[t].pc \in {"idle", "returned"}
  /\ \E order \in IterOrders(builders[b].query) :
       last' = Stepped(b, t, [IdleThread EXCEPT
                 !.pc = "collected",
                 !.pairs = [i \in 1..Len(order) |-> << order[i], builders[b].query[order[i]] >>]])
  /\ builders' = [builders EXCEPT ![b].query = EmptyQuery]

\* let mut pairs: Vec<_> = self.query.iter().collect();
ToUrlCollect(b, t) ==
  /\ b \in DOMAIN builders
  /\ ThreadsNow[t].pc \in {"idle", "returned"}
  /\ \E order \in IterOrders(builders[b].query) :
       last' = Stepped(b, t, [IdleThread EXCEPT
                 !.pc = "collected",
                 !.pairs = [i \in 1..Len(order) |-> << order[i], builders[b].query[order[i]] >>]])
  /\ UNCHANGED builders

\* pairs.sort_by(..); let query_string = pairs.iter().map(..).collect().join("&");
ToUrlSerialize(b, t) ==
  /\ b \in DOMAIN builders
  /\ ThreadsNow[t].pc = "collected"
  /\ LET pairs == sort_by(ThreadsNow[t].pairs)
     IN  last' = Stepped(b, t, [ThreadsNow[t] EXCEPT
                   !.pc = "serialized",
                   !.pairs = pairs,
                   !.query_string =
                     join([i \in 1..Len(pairs) |-> pairs[i][1] \o << "=" >> \o encode(pairs[i][2])],
                          << "&" >>)])
  /\ UNCHANGED builders

\* the signing gate, the port and the final format! of to_url
ToUrlReturn(b, t) ==
  /\ b \in DOMAIN builders
  /\ ThreadsNow[t].pc = "serialized"
  /\ LET self == builders[b]
         pre == ThreadsNow[t].query_string
         query_string ==
           IF must_sign(self)
           THEN pre \o S_amp_ichm_eq \o sign(pre, self.config.secret[1])
           ELSE pre
     IN  last' = Stepped(b, t, [ThreadsNow[t] EXCEPT
                   !.pc = "returned",
                   !.query_string = query_string,
                   !.url = self.config.protocol \o << ":", "/", "/" >> \o self.config.host
                             \o port_str(self.config) \o self.config.pathname
                             \o << "?" >> \o query_string])
  /\ UNCHANGED builders

\* a setter, called when no to_url call borrows the builder
SetterAlone(b, key, value) == NoCallInFlight /\ Setter(b, key, value)

NextThreads ==
  \/ \E b \in DOMAIN builders, key \in BranchKeys, value \in BranchValues :
       SetterAlone(b, key, value)
  \/ \E b \in DOMAIN builders, t \in Threads : ToUrlCollect(b, t)
  \/ \E b \in DOMAIN builders, t \in Threads : ToUrlSerialize(b, t)
  \/ \E b \in DOMAIN builders, t \in Threads : ToUrlReturn(b, t)

\* one builder, its setters, and interleaved to_url calls of several threads
SpecThreads == InitBranch /\ [][NextThreads]_vars

(***************************************************************************)
(* C22.  to_url is side-effect-free and safe under concurrency: under any  *)
(* interleaving of concurrent to_url calls on the same immutable builder,  *)
(* every call returns the URL a sequential call would, no call performs    *)
(* I/O, and the Configuration and ParameterSet are unchanged afterwards.   *)
(***************************************************************************)
\* C22: whatever the interleaving of the steps of concurrent to_url calls on a
\* builder, a call that has returned has returned a URL that a call running
\* alone returns for that builder; a step of a call issues no request and
\* writes no file, and leaves every builder and the locals of the other calls
\* as they were
C22_ConcurrentToUrl ==
  /\ [](last.op = "to_url_step" =>
          /\ \A t \in Threads :
               last.threads[t].pc = "returned" =>
                 last.threads[t].url \in UrlsOf(builders[last.b])
          /\ DOMAIN last \cap {"requests", "writes", "io"} = {})
  /\ [][last'.op = "to_url_step" =>
          /\ builders' = builders
          /\ \E t \in Threads :
               \A other \in Threads \ {t} : last'.threads[other] = ThreadsNow[other]]_vars

\* two calls overlap on a builder that signs: the first has returned the
\* signed URL of the builder while the second still holds its pairs in the
\* order the map gave them, not the sorted one
C22_Witness ==
  /\ last.op = "to_url_step"
  /\ last.threads[1].pc = "returned"
  /\ last.threads[2].pc = "collected"
  /\ Len(last.threads[2].pairs) = 2
  /\ last.threads[2].pairs # sort_by(last.threads[2].pairs)
  /\ must_sign(builders[last.b])
  /\ Contains(last.threads[1].url, S_amp_ichm_eq)
  /\ last.threads[1].url \in UrlsOf(builders[last.b])

(***************************************************************************)
(* C23.  Each parameter setter changes only the entry for its own          *)
(* parameter name: the Configuration of the returned builder equals the    *)
(* receiver's and every other key keeps its value; hence the Configuration *)
(* of a builder is the same in every state reachable from construction.    *)
(***************************************************************************)
\* C23: a step leaves the Configuration of every builder as it was, all seven
\* fields of it, and a setter call leaves the value of every key other than
\* its own as it was
C23_SetterFrame ==
  [][/\ \A b \in DOMAIN builders :
          /\ b \in DOMAIN builders'
          /\ builders'[b].config.protocol = builders[b].config.protocol
          /\ builders'[b].config.host = builders[b].config.host
          /\ builders'[b].config.port = builders[b].config.port
          /\ builders'[b].config.pathname = builders[b].config.pathname
          /\ builders'[b].config.timeout = builders[b].config.timeout
          /\ builders'[b].config.secret = builders[b].config.secret
          /\ builders'[b].config.user_agent = builders[b].config.user_agent
     /\ \A b \in DOMAIN builders, key \in Keys, value \in Values :
          Setter(b, key, value) =>
            \A k \in DOMAIN builders[b].query \ {key} :
              /\ k \in DOMAIN builders'[b].query
              /\ builders'[b].query[k] = builders[b].query[k]]_vars

\* a setter was called on a builder with a Configuration that is not the
\* default one and with other parameters set: the Configuration is still the
\* one given at construction
C23_Witness ==
  /\ last.op = "set"
  /\ NParams = 3
  /\ Self.config =
       [ImageChartsConfig_default EXCEPT !.protocol = S_ftp, !.host = S_localhost,
                                         !.port = 65535, !.pathname = S_v1,
                                         !.secret = Some(S_plop)]

(***************************************************************************)
(* C24.  When the x-ic-error-validation header is present but cannot be    *)
(* parsed as a JSON array of objects each having a string message field,   *)
(* it is treated as absent: the message falls back to the error code, else *)
(* to `HTTP <status>`, an error with the status is still returned, and the *)
(* parse failure is never surfaced.                                        *)
(***************************************************************************)
\* the header texts that are a JSON array of objects each having a string
\* message field
ArraysOfMessageObjects == {T_one, T_two, T_none, T_extra, T_twice, T_accent}

\* the message of an error built without the validation header
FallbackMessage ==
  IF Readable(last.io.error_code) THEN last.io.error_code[1] ELSE HttpText(last.io.status)

\* C24 (original): for a rejected response whose validation header is text but
\* not a JSON array of objects each having a string message, the error has the
\* status and the message it would have without the header
C24_Original ==
  (/\ FetchCalled /\ Rejected
   /\ Readable(last.io.validation)
   /\ last.io.validation[1] \notin ArraysOfMessageObjects) =>
    /\ last.result.tag = "Err"
    /\ last.result.error.status_code = Some(last.io.status)
    /\ last.result.error.message = FallbackMessage

\* C24 (amended): for a rejected response whose validation header is text that
\* does not deserialize as a list of validation errors, the error has the
\* status and the message it would have without the header
C24_UnparsableIsAbsent ==
  (/\ FetchCalled /\ Rejected
   /\ Readable(last.io.validation)
   /\ JoinedMessages(last.io.validation[1]) = << >>) =>
    /\ last.result.tag = "Err"
    /\ last.result.error.status_code = Some(last.io.status)
    /\ last.result.error.message = FallbackMessage

\* the validation header [{"msg":"bad cht"}] has no message field: the error
\* takes its message from the error code header and keeps the status
C24_Witness ==
  /\ FetchCalled /\ Rejected
  /\ last.io.status = 422
  /\ last.io.validation = Some(T_nofield)
  /\ last.io.error_code = Some(S_code)
  /\ last.result.tag = "Err"
  /\ last.result.error.message = S_code
  /\ last.result.error.status_code = Some(422)

(***************************************************************************)
(* C25.  When the x-ic-error-validation header parses successfully its     *)
(* joined messages are always the error message, whatever their content:   *)
(* an empty array yields the empty message even when an x-ic-error-code    *)
(* header is present, the code then being only in the code field.          *)
(***************************************************************************)
\* C25: for a rejected response whose validation header is text that lists
\* messages, the message of the error is those messages joined with newlines,
\* the empty string when the list is empty, never the error code and never
\* HTTP <status>; the code of the response is in the code field
C25_ParsedMessagesAlwaysUsed ==
  (/\ FetchCalled /\ Rejected
   /\ Readable(last.io.validation)
   /\ JoinedMessages(last.io.validation[1]) # << >>) =>
    /\ last.result.tag = "Err"
    /\ last.result.error.message = JoinedMessages(last.io.validation[1])[1]
    /\ last.io.validation[1] = T_none => last.result.error.message = << >>
    /\ Readable(last.io.error_code) => last.result.error.code = last.io.error_code

\* the validation header is [] and an error code header is present: the
\* message is empty and the code is in the code field
C25_Witness ==
  /\ FetchCalled /\ Rejected
  /\ last.io.validation = Some(T_none)
  /\ last.io.error_code = Some(S_code)
  /\ last.result.tag = "Err"
  /\ last.result.error.message = << >>
  /\ last.result.error.code = Some(S_code)
  /\ last.result.error.status_code = Some(422)

=============================================================================
